---------------------------- MODULE Spec2Model ----------------------------
(***************************************************************************)
(* Third-Eye frontend: the DashboardService (widget generation and its     *)
(* localStorage persistence), the chatbot component, and the Analytics and *)
(* Conversations query pages, as state machines over JSON-like values.     *)
(***************************************************************************)
EXTENDS Integers, Sequences, FiniteSets, TLC

(***************************************************************************)
(* JavaScript / JSON values. Every value is a tagged record so that values *)
(* of different JavaScript types can be compared.                          *)
(***************************************************************************)
Undefined == [k |-> "undefined"]
Null == [k |-> "null"]
Num(n) == [k |-> "num", v |-> n]
Str(s) == [k |-> "str", v |-> s]
Bool(b) == [k |-> "bool", v |-> b]
Arr(s) == [k |-> "array", items |-> s]
Obj(f) == [k |-> "obj", cells |-> f]

\* JavaScript truthiness of a value (!x is ~Truthy(x)).
Truthy(x) ==
    CASE x.k = "undefined" -> FALSE
      [] x.k = "null" -> FALSE
      [] x.k = "bool" -> x.v
      [] x.k = "num" -> x.v # 0
      [] x.k = "str" -> x.v # ""
      [] OTHER -> TRUE

\* Array.isArray
IsArray(x) == x.k = "array"

\* a || b on values
OrElse(a, b) == IF Truthy(a) THEN a ELSE b

\* row[name]: a property read on an object; a missing key reads as undefined.
\* The caller guards against a null/undefined receiver (which throws).
Prop(row, name) ==
    IF name \in DOMAIN row.cells THEN row.cells[name] ELSE Undefined

Range(s) == {s[i] : i \in DOMAIN s}

(***************************************************************************)
(* Strings that the code inspects character by character are sequences of  *)
(* one-character strings.                                                  *)
(***************************************************************************)
LowerOf ==
    ("D" :> "d") @@ ("T" :> "t") @@ ("F" :> "f") @@ ("S" :> "s")
    @@ ("Q" :> "q") @@ ("L" :> "l") @@ ("W" :> "w")
toLowerCase(s) == [i \in DOMAIN s |-> IF s[i] \in DOMAIN LowerOf THEN LowerOf[s[i]] ELSE s[i]]

includes(s, sub) ==
    \E i \in 1..(Len(s) - Len(sub) + 1) : SubSeq(s, i, i + Len(sub) - 1) = sub

WhiteSpace == {" ", "\n"}

\* String.prototype.trim: drop leading and trailing white space.
RECURSIVE TrimStart(_)
TrimStart(s) ==
    IF s = <<>> THEN s
    ELSE IF Head(s) \in WhiteSpace THEN TrimStart(Tail(s)) ELSE s

RECURSIVE TrimEnd(_)
TrimEnd(s) ==
    IF s = <<>> THEN s
    ELSE IF s[Len(s)] \in WhiteSpace THEN TrimEnd(SubSeq(s, 1, Len(s) - 1)) ELSE s

trim(s) == TrimEnd(TrimStart(s))

(***************************************************************************)
(* Bounds of the model.                                                    *)
(***************************************************************************)
MaxCols == 2
MaxRows == 2
ChartMaxRows == 50

(***************************************************************************)
(* DashboardService (dashboard.service.ts)                                 *)
(***************************************************************************)
Thrown == [k |-> "throw"]

IsNumericType(col) == col.type \in {"integer", "float", "number"}

hasNumericColumn(columns) == \E i \in DOMAIN columns : IsNumericType(columns[i])

hasTimeColumn(columns) ==
    \E i \in DOMAIN columns :
        \/ columns[i].type = "date"
        \/ columns[i].type = "datetime"
        \/ includes(toLowerCase(columns[i].name), <<"d", "a", "t", "e">>)
        \/ includes(toLowerCase(columns[i].name), <<"t", "i", "m", "e">>)

determineWidgetTypeSingleRow(queryResult) ==
    LET rows == queryResult.raw_data.rows
        columns == queryResult.raw_data.columns
    IN  IF ~IsArray(rows) \/ ~IsArray(columns) THEN "throw"
        ELSE IF Len(rows.items) = 1 /\ Len(columns.items) >= 1 THEN "metric"
        ELSE IF Len(rows.items) > 1 \/ Len(columns.items) > 1
             THEN IF /\ hasTimeColumn(columns.items)
                     /\ hasNumericColumn(columns.items)
                     /\ Len(rows.items) > 1
                     /\ Len(rows.items) <= ChartMaxRows
                  THEN "chart"
                  ELSE "table"
        ELSE "text"

determineWidgetTypeRowsAndCols(queryResult) ==
    LET rows == queryResult.raw_data.rows
        columns == queryResult.raw_data.columns
    IN  IF ~IsArray(rows) \/ ~IsArray(columns) THEN "throw"
        ELSE IF Len(rows.items) = 1 /\ Len(columns.items) = 1 THEN "metric"
        ELSE IF Len(rows.items) > 1 /\ Len(columns.items) > 1
             THEN IF /\ hasTimeColumn(columns.items)
                     /\ hasNumericColumn(columns.items)
                     /\ Len(rows.items) > 1
                     /\ Len(rows.items) <= ChartMaxRows
                  THEN "chart"
                  ELSE "table"
        ELSE "text"

determineWidgetTypeBelow50(queryResult) ==
    LET rows == queryResult.raw_data.rows
        columns == queryResult.raw_data.columns
    IN  IF ~IsArray(rows) \/ ~IsArray(columns) THEN "throw"
        ELSE IF Len(rows.items) = 1 /\ Len(columns.items) = 1 THEN "metric"
        ELSE IF Len(rows.items) > 1 \/ Len(columns.items) > 1
             THEN IF /\ hasTimeColumn(columns.items)
                     /\ hasNumericColumn(columns.items)
                     /\ Len(rows.items) > 1
                     /\ Len(rows.items) < ChartMaxRows
                  THEN "chart"
                  ELSE "table"
        ELSE "text"

\* "throw" stands for the TypeError raised by rows.length / columns.length /
\* columns.some when rows or columns is undefined.
determineWidgetType(queryResult) ==
    LET rows == queryResult.raw_data.rows
        columns == queryResult.raw_data.columns
    IN  IF ~IsArray(rows) \/ ~IsArray(columns) THEN "throw"
        ELSE IF Len(rows.items) = 1 /\ Len(columns.items) = 1 THEN "metric"
        ELSE IF Len(rows.items) > 1 \/ Len(columns.items) > 1
             THEN IF /\ hasTimeColumn(columns.items)
                     /\ hasNumericColumn(columns.items)
                     /\ Len(rows.items) > 1
                     /\ Len(rows.items) <= ChartMaxRows
                  THEN "chart"
                  ELSE "table"
        ELSE "text"

\* The prompts of the model start with a capital and are shorter than 50
\* characters, so capitalising and truncating leave them as they are.
generateWidgetTitle(queryResult) ==
    IF Truthy(queryResult.prompt) THEN queryResult.prompt ELSE Str("Query Result")

ColumnLabel(col) == IF col.friendly_name # <<>> THEN col.friendly_name ELSE col.name

IsObjectRow(row) == row.k = "obj"

formatChartData(columns, rows) ==
    LET labelCandidates ==
            {i \in DOMAIN columns : columns[i].type \in {"date", "datetime", "string"}}
        labelColumn ==
            IF labelCandidates # {}
            THEN columns[CHOOSE i \in labelCandidates : \A j \in labelCandidates : i <= j]
            ELSE columns[1]
        valueColumns == SelectSeq(columns, IsNumericType)
    IN  IF \E i \in DOMAIN rows : ~IsObjectRow(rows[i]) THEN Thrown
        ELSE [k |-> "chartData",
              labels |-> Arr([i \in DOMAIN rows |-> Prop(rows[i], labelColumn.name)]),
              datasets |-> [c \in DOMAIN valueColumns |->
                              [label |-> ColumnLabel(valueColumns[c]),
                               data |-> Arr([i \in DOMAIN rows |->
                                               Prop(rows[i], valueColumns[c].name)]),
                               type |-> valueColumns[c].type]],
              chartType |-> "bar"]

\* Thrown stands for the TypeError of rows[0][col.name] / row[col.name] on a
\* null row.
formatWidgetData(queryResult, type) ==
    LET rows == queryResult.raw_data.rows.items
        columns == queryResult.raw_data.columns.items
    IN  CASE type = "metric" ->
               IF ~IsObjectRow(rows[1]) THEN Thrown
               ELSE [k |-> "metricData",
                     value |-> Prop(rows[1], columns[1].name),
                     label |-> ColumnLabel(columns[1]),
                     type |-> columns[1].type]
          [] type = "table" ->
               [k |-> "tableData",
                columns |-> [i \in DOMAIN columns |->
                               [name |-> columns[i].name,
                                label |-> ColumnLabel(columns[i]),
                                type |-> columns[i].type]],
                rows |-> Arr(rows)]
          [] type = "chart" -> formatChartData(columns, rows)
          [] OTHER ->
               [k |-> "textData",
                text |-> OrElse(queryResult.answer, Str("No data available"))]

\* The result is Null, Thrown (an exception escapes) or a widget.
generateWidgetFromQueryResult(queryResult, widgetId) ==
    IF ~queryResult.success \/ ~Truthy(queryResult.raw_data) THEN Null
    ELSE LET widgetType == determineWidgetType(queryResult)
         IN  IF widgetType = "throw" THEN Thrown
             ELSE LET data == formatWidgetData(queryResult, widgetType)
                  IN  IF data = Thrown THEN Thrown
                      ELSE [k |-> "widget",
                            id |-> widgetId,
                            type |-> widgetType,
                            title |-> generateWidgetTitle(queryResult),
                            description |-> queryResult.prompt,
                            data |-> data,
                            metadata |-> [prompt |-> queryResult.prompt,
                                          answer |-> queryResult.answer,
                                          sql |-> queryResult.sql]]

(***************************************************************************)
(* Inputs of generateWidgetFromQueryResult.                                *)
(***************************************************************************)
NameDate == <<"D", "a", "t", "e">>
NameQty == <<"q", "t", "y">>
NameUptime == <<"u", "p", "T", "i", "m", "e">>

ColumnKinds ==
    { [name |-> NameDate, type |-> "date", friendly_name |-> <<"D">>],
      [name |-> NameQty, type |-> "integer", friendly_name |-> <<>>],
      [name |-> NameQty, type |-> "string", friendly_name |-> <<"Q">>],
      [name |-> NameUptime, type |-> "float", friendly_name |-> <<"U">>] }

ColumnNames == {c.name : c \in ColumnKinds}

ColumnSeqs == UNION {[1..n -> ColumnKinds] : n \in 0..MaxCols}

\* A row is null, or an object holding a cell for some of the columns.
RowsFor(columns) ==
    LET names == {columns[i].name : i \in DOMAIN columns}
    IN  {Null} \cup {Obj([n \in S |-> Num(7)]) : S \in {names, {}}}

RowSeqs(columns) ==
    UNION {[1..n -> RowsFor(columns)] : n \in 0..MaxRows}
    \cup {[i \in 1..n |-> r] : n \in {ChartMaxRows, ChartMaxRows + 1},
                               r \in RowsFor(columns)}

RawDatas ==
    {Undefined}
    \cup {[k |-> "obj", columns |-> Undefined, rows |-> Undefined]}
    \cup {[k |-> "obj", columns |-> Arr(cs), rows |-> Undefined] : cs \in ColumnSeqs}
    \cup {[k |-> "obj", columns |-> Undefined, rows |-> Arr(<<>>)]}
    \cup UNION {{[k |-> "obj", columns |-> Arr(cs), rows |-> Arr(rs)] : rs \in RowSeqs(cs)}
                  : cs \in ColumnSeqs}

QueryResults ==
    [success : BOOLEAN, prompt : {Str("Q1")}, raw_data : RawDatas,
     answer : {Str(""), Str("A1")}, sql : {Undefined},
     error : {Undefined, Str("E1")}]

(***************************************************************************)
(* State.                                                                  *)
(***************************************************************************)
VARIABLES
    queryResult,      \* input drawn for generateWidgetFromQueryResult
    generated,        \* its result
    page,             \* the part of the application exercised (see Pages)
    widgets,          \* DashboardService.widgets
    localStorage,     \* browser localStorage: key -> Null or the stored JSON text
    chatbot,          \* fields of ChatbotComponent
    analytics,        \* fields of AnalyticsComponent
    conversations,    \* fields of ConversationsComponent
    http,             \* requests (and mock API calls) awaiting their outcome
    clock,            \* Date.now()
    posts,            \* HTTP POSTs issued by sendMessage / executeQuery since page load
    calls,            \* sendMessage / executeQuery invocations that passed their guard
    event,            \* the handler that ran last, with the request and response it saw
    mcp,              \* a /chatbot/mcp-message request and the MCP server called for it
    app,              \* fields of AppComponent
    shown,            \* canShowChart and viewMode after a query succeeded with queryResult
    charts,           \* fields of the chart-enabled AnalyticsComponent, its Chart objects and timers
    bedrock           \* fields of BedrockComponent

wvars == <<queryResult, generated>>
bvars == <<mcp, app, shown, charts, bedrock>>
uivars == <<page, widgets, localStorage, chatbot, analytics, conversations, http,
            clock, posts, calls, event>>
vars == <<queryResult, generated, page, widgets, localStorage, chatbot, analytics,
          conversations, http, clock, posts, calls, event, mcp, app, shown, charts,
          bedrock>>

\* Every completed request and every generated widget takes one tick of the
\* clock; each page stops starting them at its bound.
MaxSends == 1
MaxQueries == 2
MaxSearches == 2
MaxWidgets == 3
\* Requests in flight at once.
MaxPending == 2

(***************************************************************************)
(* localStorage and JSON. A stored text is kept as the value tree it       *)
(* denotes: JSON.stringify turns an undefined array element into null,     *)
(* drops an undefined property (reading it back gives undefined) and turns *)
(* a Date into its ISO string.                                             *)
(***************************************************************************)
WidgetsKey == "third-eye-dashboard-widgets"
AnalyticsKey == "thirdEyeAnalyticsHistory"
ConversationsKey == "thirdEyeQueryHistory"
UserKey == "thirdEyeUser"
BedrockKey == "bedrockConnection"
StorageKeys == {WidgetsKey, AnalyticsKey, ConversationsKey, UserKey, BedrockKey}

JsonText(tree) == [k |-> "json", tree |-> tree]

JsonArrayItem(x) == IF x = Undefined THEN Null ELSE x

JsonArray(a) == Arr([i \in DOMAIN a.items |-> JsonArrayItem(a.items[i])])

JsonWidgetData(d) ==
    CASE d.k = "chartData" ->
           [d EXCEPT !.labels = JsonArray(d.labels),
                     !.datasets = [c \in DOMAIN d.datasets |->
                                     [d.datasets[c] EXCEPT !.data = JsonArray(d.datasets[c].data)]]]
      [] d.k = "tableData" -> [d EXCEPT !.rows = JsonArray(d.rows)]
      [] OTHER -> d

JsonWidget(w) == [w EXCEPT !.data = JsonWidgetData(w.data)]

\* JSON.stringify(this.widgets())
stringifyWidgets(ws) == JsonText([i \in DOMAIN ws |-> JsonWidget(ws[i])])

\* JSON.parse
parse(text) == text.tree

saveWidgetsToStorageNever(ls, ws) == ls

saveWidgetsToStorage(ls, ws) == [ls EXCEPT ![WidgetsKey] = stringifyWidgets(ws)]

\* The constructor's load: the list stays empty when nothing is stored.
loadWidgetsFromStorage(ls) ==
    IF Truthy(ls[WidgetsKey]) THEN parse(ls[WidgetsKey]) ELSE <<>>

\* {...w, ...updates}
Spread(w, updates) ==
    [f \in DOMAIN w |-> IF f \in DOMAIN updates THEN updates[f] ELSE w[f]]

\* The service's mutators, as the new widget list.
addWidget(ws, widget) == Append(ws, widget)

removeWidgetInverted(ws, widgetId) == SelectSeq(ws, LAMBDA w : w.id = widgetId)

removeWidget(ws, widgetId) == SelectSeq(ws, LAMBDA w : w.id # widgetId)

updateWidget(ws, widgetId, updates) ==
    [i \in DOMAIN ws |-> IF ws[i].id = widgetId THEN Spread(ws[i], updates) ELSE ws[i]]

clearAllWidgets(ws) == <<>>

WidgetId(n) == [k |-> "widgetId", now |-> n]

Unset == [k |-> "unset"]


(***************************************************************************)
(* ChatbotComponent (chatbot.component.ts)                                 *)
(***************************************************************************)
\* Texts a user types: empty, white space only, and with content.
Texts == { <<>>, <<" ">>, <<"a">>, <<" ", "b", "\n">> }

Message(role, content, model) == [k |-> "obj", role |-> role, content |-> content, model |-> model]

\* Text typed by the user, as a message content.
Text(chars) == [k |-> "text", chars |-> chars]

AiMessage == Message("assistant", Str("reply"), Str("claude"))
WelcomeMessage == Message("assistant", Str("welcome"), Undefined)

notificationMessage ==
    Message("assistant", Str("Dashboard widget generated!"), Str("system"))

\* error.error?.detail || error.message || 'Unknown error'
errorMessage(error) ==
    Message("assistant",
            [k |-> "sorry", about |-> OrElse(OrElse(error.detail, error.message),
                                             Str("Unknown error"))],
            Undefined)

HttpErrors ==
    { [detail |-> Str("Server error"), message |-> Str("Http failure")],
      [detail |-> Undefined, message |-> Undefined] }

\* The TypeError thrown inside generateWidgetFromQueryResult.
TypeError == [detail |-> Undefined, message |-> Str("Cannot read properties")]

\* A response body of /chatbot/message or /chatbot/mcp-message.
Response(ai, success, raw, nestedQ, nestedD) ==
    [k |-> "obj", session_id |-> Str("s1"), ai_message |-> ai, success |-> success,
     prompt |-> Undefined, query |-> Str("Q1"), answer |-> Undefined, sql |-> Undefined,
     raw_data |-> raw, query_result |-> nestedQ, data |-> nestedD]

ColDate == [name |-> NameDate, type |-> "date", friendly_name |-> <<"D">>]
ColQty == [name |-> NameQty, type |-> "integer", friendly_name |-> <<>>]
FullRow == Obj([n \in {NameDate, NameQty} |-> Num(7)])
EmptyRow == Obj([n \in {} |-> Num(7)])

RawData(columns, rows) == [k |-> "obj", columns |-> columns, rows |-> rows]

RawMetric == RawData(Arr(<<ColQty>>), Arr(<<FullRow>>))
RawTable == RawData(Arr(<<ColDate, ColQty>>), Arr(<<FullRow>>))
RawChart == RawData(Arr(<<ColDate, ColQty>>), Arr(<<FullRow, FullRow>>))
RawChartSparse == RawData(Arr(<<ColDate, ColQty>>), Arr(<<FullRow, EmptyRow>>))
RawNullRow == RawData(Arr(<<ColQty>>), Arr(<<Null>>))
RawNoRows == RawData(Arr(<<ColQty>>), Undefined)

Inner(raw) == Response(Undefined, Undefined, raw, Undefined, Undefined)

ChatResponses ==
    { Null,
      Response(AiMessage, Undefined, Undefined, Undefined, Undefined),
      Response(AiMessage, Bool(TRUE), RawMetric, Undefined, Undefined),
      Response(Undefined, Undefined, RawTable, Undefined, Undefined),
      Response(AiMessage, Undefined, RawChart, Undefined, Undefined),
      Response(AiMessage, Undefined, RawChartSparse, Undefined, Undefined),
      Response(AiMessage, Bool(FALSE), RawMetric, Undefined, Undefined),
      Response(AiMessage, Bool(TRUE), RawNullRow, Undefined, Undefined),
      Response(AiMessage, Bool(TRUE), RawNoRows, Undefined, Undefined),
      Response(AiMessage, Bool(TRUE), Undefined, Inner(RawMetric), Undefined),
      Response(AiMessage, Bool(TRUE), Undefined, Undefined, Inner(RawTable)) }

\* A response body of /chatbot/start.
SessionResponses ==
    { Null,
      [k |-> "obj", session_id |-> Str("s0"), messages |-> Undefined],
      [k |-> "obj", session_id |-> Str("s0"), messages |-> Arr(<<WelcomeMessage>>)] }

isQueryResult(response) ==
    /\ Truthy(response)
    /\ response.k = "obj"
    /\ Truthy(response.raw_data)
    /\ IsArray(response.raw_data.columns)
    /\ IsArray(response.raw_data.rows)

\* response.ai_message?.content
AiContent(response) ==
    IF Truthy(response.ai_message) THEN response.ai_message.content ELSE Undefined

QueryResultOf(response) ==
    [success |-> response.success # Bool(FALSE),
     prompt |-> OrElse(OrElse(response.prompt, response.query), Str("Query Result")),
     raw_data |-> response.raw_data,
     answer |-> OrElse(OrElse(response.answer, AiContent(response)), Str("")),
     sql |-> response.sql]

\* Null when no query result is found at the top level, under query_result
\* or under data (one level is enough for the responses of the model).
extractQueryResult(response) ==
    IF isQueryResult(response) THEN QueryResultOf(response)
    ELSE IF Truthy(response.query_result) /\ isQueryResult(response.query_result)
         THEN QueryResultOf(response.query_result)
    ELSE IF Truthy(response.data) /\ isQueryResult(response.data)
         THEN QueryResultOf(response.data)
    ELSE Null

\* What tryGenerateDashboard does: the new widget list, the chat messages it
\* appends, and whether an exception escapes it.
NoDashboard(ws) == [widgets |-> ws, said |-> <<>>, threw |-> FALSE]

tryGenerateDashboard(response, auto, hasService, ws, now) ==
    IF ~auto \/ ~hasService THEN NoDashboard(ws)
    ELSE IF ~isQueryResult(response) THEN NoDashboard(ws)
    ELSE LET qr == extractQueryResult(response)
         IN  IF qr = Null THEN NoDashboard(ws)
             ELSE LET widget == generateWidgetFromQueryResult(qr, WidgetId(now))
                  IN  IF widget = Thrown THEN [widgets |-> ws, said |-> <<>>, threw |-> TRUE]
                      ELSE IF widget = Null THEN NoDashboard(ws)
                      ELSE [widgets |-> addWidget(ws, widget),
                            said |-> <<notificationMessage>>,
                            threw |-> FALSE]

InitChatbot(hasService) ==
    [isOpen |-> FALSE, messages |-> <<>>, currentMessage |-> <<>>, sessionId |-> Null,
     isGenerating |-> FALSE, selectedMCPServer |-> Null,
     autoDashboardGeneration |-> TRUE, dashboardService |-> hasService]

NoEvent == [name |-> "init", request |-> Null, response |-> Null]
Event(name, request, response) == [name |-> name, request |-> request, response |-> response]

\* s without its i-th element
Without(s, i) == SubSeq(s, 1, i - 1) \o SubSeq(s, i + 1, Len(s))

settleAndRetry(pending, i) == Append(Without(pending, i), pending[i])

\* The requests in flight once the i-th one was rejected and its catch block
\* ran: no catch block posts again.
settleFailed(pending, i) == Without(pending, i)

others == <<wvars, bvars, page, analytics, conversations>>

openChatbot ==
    /\ page = "chatbot"
    /\ ~chatbot.isOpen
    /\ IF ~Truthy(chatbot.sessionId)
       THEN /\ Len(http) < MaxPending
            /\ http' = Append(http, [kind |-> "start", body |-> Null])
       ELSE UNCHANGED http
    /\ chatbot' = [chatbot EXCEPT !.isOpen = TRUE]
    /\ event' = Event("openChatbot", Null, Null)
    /\ UNCHANGED <<others, widgets, localStorage, clock, posts, calls>>

closeChatbot ==
    /\ page = "chatbot"
    /\ chatbot.isOpen
    /\ chatbot' = [chatbot EXCEPT !.isOpen = FALSE]
    /\ event' = Event("closeChatbot", Null, Null)
    /\ UNCHANGED <<others, widgets, localStorage, http, clock, posts, calls>>

\* [(ngModel)]="currentMessage"; the textarea is disabled while generating.
typeMessage ==
    /\ page = "chatbot"
    /\ chatbot.isOpen
    /\ ~chatbot.isGenerating
    /\ \E t \in Texts \ {chatbot.currentMessage} :
          chatbot' = [chatbot EXCEPT !.currentMessage = t]
    /\ event' = Event("typeMessage", Null, Null)
    /\ UNCHANGED <<others, widgets, localStorage, http, clock, posts, calls>>

toggleAutoDashboard ==
    /\ page = "chatbot"
    /\ chatbot.isOpen
    /\ chatbot' = [chatbot EXCEPT !.autoDashboardGeneration = ~@]
    /\ event' = Event("toggle", Null, Null)
    /\ UNCHANGED <<others, widgets, localStorage, http, clock, posts, calls>>

\* The Send button's [disabled] binding.
sendBtnDisabled == trim(chatbot.currentMessage) = <<>> \/ chatbot.isGenerating

\* sendMessage up to its await: the guard, the user message, the POST. The
\* "Use MCP Server" checkbox (useMCP, on by default) only selects the endpoint;
\* it is read here as the user left it.
MessageRequest(useMCP) ==
    [kind |-> "message",
     body |-> [endpoint |-> IF useMCP THEN "/chatbot/mcp-message" ELSE "/chatbot/message",
               message |-> chatbot.currentMessage,
               session_id |-> chatbot.sessionId,
               mcp_server_id |-> IF useMCP THEN chatbot.selectedMCPServer ELSE Undefined]]

sendMessage ==
    /\ page = "chatbot"
    /\ chatbot.isOpen
    /\ ~(trim(chatbot.currentMessage) = <<>> \/ chatbot.isGenerating)
    /\ clock < MaxSends
    /\ Len(http) < MaxPending
    /\ chatbot' = [chatbot EXCEPT
                     !.messages = Append(@, Message("user", Text(chatbot.currentMessage),
                                                    Undefined)),
                     !.currentMessage = <<>>,
                     !.isGenerating = TRUE]
    /\ \E useMCP \in BOOLEAN :
        /\ http' = Append(http, MessageRequest(useMCP))
        /\ event' = Event("sendMessage", MessageRequest(useMCP), Null)
    /\ posts' = posts + 1
    /\ calls' = calls + 1
    /\ UNCHANGED <<others, widgets, localStorage, clock>>

sendMessageCatchLogOnly(msgs, error) == msgs

\* The catch block of sendMessage.
sendMessageCatch(msgs, error) == Append(msgs, errorMessage(error))

\* sendMessage after its await resolved with a response body.
messageResolve ==
    /\ page = "chatbot"
    /\ \E i \in DOMAIN http, response \in ChatResponses :
        /\ http[i].kind = "message"
        /\ LET withAi == IF Truthy(response) /\ Truthy(response.ai_message)
                         THEN Append(chatbot.messages, response.ai_message)
                         ELSE chatbot.messages
               dash == IF Truthy(response)
                       THEN tryGenerateDashboard(response, chatbot.autoDashboardGeneration,
                                                 chatbot.dashboardService, widgets, clock)
                       ELSE NoDashboard(widgets)
               msgs == IF dash.threw THEN sendMessageCatch(withAi, TypeError)
                       ELSE withAi \o dash.said
           IN  /\ chatbot' = [chatbot EXCEPT
                                !.sessionId = IF Truthy(response) THEN response.session_id ELSE @,
                                !.messages = msgs,
                                !.isGenerating = FALSE]
               /\ widgets' = dash.widgets
               /\ localStorage' = IF dash.widgets # widgets
                                  THEN saveWidgetsToStorage(localStorage, dash.widgets)
                                  ELSE localStorage
        /\ http' = Without(http, i)
        /\ event' = Event("messageResolve", http[i], response)
    /\ clock' = clock + 1
    /\ UNCHANGED <<others, posts, calls>>

\* sendMessage after its await rejected.
messageReject ==
    /\ page = "chatbot"
    /\ \E i \in DOMAIN http, error \in HttpErrors :
        /\ http[i].kind = "message"
        /\ chatbot' = [chatbot EXCEPT
                         !.messages = sendMessageCatch(@, error),
                         !.isGenerating = FALSE]
        /\ http' = settleFailed(http, i)
        /\ event' = Event("messageReject", http[i], Null)
    /\ clock' = clock + 1
    /\ UNCHANGED <<others, widgets, localStorage, posts, calls>>

\* startSession after its await resolved.
startResolve ==
    /\ page = "chatbot"
    /\ \E i \in DOMAIN http, response \in SessionResponses :
        /\ http[i].kind = "start"
        /\ chatbot' = IF Truthy(response)
                      THEN [chatbot EXCEPT
                              !.sessionId = response.session_id,
                              !.messages = IF Truthy(response.messages)
                                           THEN response.messages.items ELSE <<>>]
                      ELSE chatbot
        /\ http' = Without(http, i)
        /\ event' = Event("startResolve", http[i], response)
    /\ UNCHANGED <<others, widgets, localStorage, clock, posts, calls>>

\* startSession after its await rejected: console.error only.
startReject ==
    /\ page = "chatbot"
    /\ \E i \in DOMAIN http :
        /\ http[i].kind = "start"
        /\ http' = Without(http, i)
        /\ event' = Event("startReject", http[i], Null)
    /\ UNCHANGED <<others, chatbot, widgets, localStorage, clock, posts, calls>>

(***************************************************************************)
(* DashboardService driven from the dashboard page.                        *)
(***************************************************************************)
DashQueryResults == {QueryResultOf(r) : r \in {x \in ChatResponses : isQueryResult(x)}}

WidgetUpdates == { [title |-> Str("Renamed")] }

\* generateWidgetFromQueryResult followed by addWidget when a widget came back.
generateAndAdd ==
    /\ page = "dashboard"
    /\ clock < MaxWidgets
    /\ \E qr \in DashQueryResults :
        LET widget == generateWidgetFromQueryResult(qr, WidgetId(clock))
        IN  /\ widget # Thrown
            /\ widget # Null
            /\ widgets' = addWidget(widgets, widget)
            /\ localStorage' = saveWidgetsToStorage(localStorage, widgets')
    /\ clock' = clock + 1
    /\ event' = Event("addWidget", Null, Null)
    /\ UNCHANGED <<others, chatbot, http, posts, calls>>

removeWidgetById ==
    /\ page = "dashboard"
    /\ \E widgetId \in {widgets[i].id : i \in DOMAIN widgets} \cup {WidgetId(clock)} :
        /\ widgets' = removeWidget(widgets, widgetId)
        /\ localStorage' = saveWidgetsToStorage(localStorage, widgets')
        /\ event' = Event("removeWidget", widgetId, Null)
    /\ UNCHANGED <<others, chatbot, http, clock, posts, calls>>

updateWidgetById ==
    /\ page = "dashboard"
    /\ \E i \in DOMAIN widgets, updates \in WidgetUpdates :
        /\ widgets' = updateWidget(widgets, widgets[i].id, updates)
        /\ localStorage' = saveWidgetsToStorage(localStorage, widgets')
    /\ event' = Event("updateWidget", Null, Null)
    /\ UNCHANGED <<others, chatbot, http, clock, posts, calls>>

clearAll ==
    /\ page = "dashboard"
    /\ widgets # <<>>
    /\ widgets' = clearAllWidgets(widgets)
    /\ localStorage' = saveWidgetsToStorage(localStorage, widgets')
    /\ event' = Event("clearAllWidgets", Null, Null)
    /\ UNCHANGED <<others, chatbot, http, clock, posts, calls>>

(***************************************************************************)
(* AnalyticsComponent (analytics.component.ts) and ConversationsComponent  *)
(* (conversations.component.ts)                                            *)
(***************************************************************************)
Entry(id, query, response, timestamp, status, processingTime) ==
    [k |-> "obj", id |-> id, query |-> query, response |-> response, timestamp |-> timestamp,
     status |-> status, processingTime |-> processingTime]

\* Date.now().toString()
IdOf(now) == [k |-> "id", now |-> now]
\* new Date()
DateOf(now) == [k |-> "date", ms |-> now]

\* JSON.stringify of a Date is its ISO string; new Date(iso) reads it back.
toISOString(d) == [k |-> "iso", ms |-> d.ms]
newDate(x) == IF x.k = "iso" THEN [k |-> "date", ms |-> x.ms] ELSE [k |-> "invalid date"]

stringifyHistory(history) ==
    JsonText([i \in DOMAIN history |-> [history[i] EXCEPT !.timestamp = toISOString(@)]])

saveQueryHistoryNever(ls, key, history) == ls

saveQueryHistory(ls, key, history) == [ls EXCEPT ![key] = stringifyHistory(history)]

\* The history a component starts with (ngOnInit on an empty queryHistory).
loadQueryHistory(ls, key) ==
    IF Truthy(ls[key])
    THEN LET history == parse(ls[key])
         IN  [i \in DOMAIN history |-> [history[i] EXCEPT !.timestamp = newDate(@)]]
    ELSE <<>>

InitQueryPage ==
    [queryText |-> <<>>, isProcessing |-> FALSE, currentResponse |-> Null, queryHistory |-> <<>>]

\* Bodies of /analytics/execute responses.
AnalyticsResponses ==
    { Null,
      [k |-> "obj", result |-> Undefined, query_id |-> Undefined, rows |-> Num(1)],
      [k |-> "obj", result |-> Str("R"), query_id |-> [k |-> "id", now |-> 99], rows |-> Num(2)] }

\* { error: 'Failed to process analytics query', details: String(error) }
AnalyticsFailure(error) ==
    [k |-> "obj", error |-> Str("Failed to process analytics query"),
     details |-> [k |-> "String", of |-> error]]

\* The Execute Query button's [disabled] binding.
executeBtnDisabledIgnoringBusy == trim(analytics.queryText) = <<>>

executeBtnDisabled == trim(analytics.queryText) = <<>> \/ analytics.isProcessing

typeQuery ==
    /\ page = "analytics"
    /\ ~analytics.isProcessing
    /\ \E t \in Texts \ {analytics.queryText} :
          analytics' = [analytics EXCEPT !.queryText = t]
    /\ event' = Event("typeQuery", Null, Null)
    /\ UNCHANGED <<wvars, bvars, page, conversations, chatbot, widgets,
                   localStorage, http, clock, posts, calls>>

clearOutput ==
    /\ page = "analytics"
    /\ Truthy(analytics.currentResponse)
    /\ analytics' = [analytics EXCEPT !.currentResponse = Null]
    /\ event' = Event("clearOutput", Null, Null)
    /\ UNCHANGED <<wvars, bvars, page, conversations, chatbot, widgets,
                   localStorage, http, clock, posts, calls>>

loadHistoryItem ==
    /\ page = "analytics"
    /\ \E i \in DOMAIN analytics.queryHistory :
          analytics' = [analytics EXCEPT
                          !.currentResponse = analytics.queryHistory[i],
                          !.queryText = analytics.queryHistory[i].query]
    /\ event' = Event("loadHistoryItem", Null, Null)
    /\ UNCHANGED <<wvars, bvars, page, conversations, chatbot, widgets,
                   localStorage, http, clock, posts, calls>>

QueryRequest ==
    [kind |-> "query",
     body |-> [query |-> analytics.queryText],
     queryId |-> IdOf(clock),
     startTime |-> clock]

\* executeQuery up to its await, started from the Execute Query button.
executeQuery ==
    /\ page = "analytics"
    /\ ~executeBtnDisabled
    /\ trim(analytics.queryText) # <<>>
    /\ clock < MaxQueries
    /\ Len(http) < MaxPending
    /\ analytics' = [analytics EXCEPT
                       !.currentResponse =
                           Entry(IdOf(clock), analytics.queryText, Null, DateOf(clock),
                                 "loading", Undefined),
                       !.isProcessing = TRUE]
    /\ http' = Append(http, QueryRequest)
    /\ posts' = posts + 1
    /\ calls' = calls + 1
    /\ event' = Event("executeQuery", QueryRequest, Null)
    /\ UNCHANGED <<wvars, bvars, page, conversations, chatbot, widgets,
                   localStorage, clock>>

\* The catch block of executeQuery: the component and the storage after it.
executeQueryCatch(a, ls, request, error, now) ==
    LET errorResponse ==
            Entry(request.queryId, a.queryText, AnalyticsFailure(error), DateOf(now),
                  "error", Undefined)
    IN  [component |-> [a EXCEPT !.currentResponse = errorResponse,
                                 !.queryHistory = Append(@, errorResponse),
                                 !.isProcessing = FALSE],
         storage |-> ls]

\* The try block of executeQuery after the await resolved.
executeQueryThen(a, ls, request, response, now) ==
    IF ~Truthy(response) THEN executeQueryCatch(a, ls, request, TypeError, now)
    ELSE LET successResponse ==
                 Entry(OrElse(response.query_id, request.queryId), a.queryText,
                       OrElse(response.result, response), DateOf(now), "success",
                       Num(now - request.startTime))
             history == Append(a.queryHistory, successResponse)
         IN  [component |-> [a EXCEPT !.currentResponse = successResponse,
                                      !.queryHistory = history,
                                      !.isProcessing = FALSE],
              storage |-> saveQueryHistory(ls, AnalyticsKey, history)]

queryResolve ==
    /\ page = "analytics"
    /\ \E i \in DOMAIN http, response \in AnalyticsResponses :
        /\ http[i].kind = "query"
        /\ LET after == executeQueryThen(analytics, localStorage, http[i], response, clock + 1)
           IN  /\ analytics' = after.component
               /\ localStorage' = after.storage
        /\ http' = Without(http, i)
        /\ event' = Event("queryResolve", http[i], response)
    /\ clock' = clock + 1
    /\ UNCHANGED <<wvars, bvars, page, conversations, chatbot, widgets, posts, calls>>

queryReject ==
    /\ page = "analytics"
    /\ \E i \in DOMAIN http, error \in HttpErrors :
        /\ http[i].kind = "query"
        /\ LET after == executeQueryCatch(analytics, localStorage, http[i], error, clock + 1)
           IN  /\ analytics' = after.component
               /\ localStorage' = after.storage
        /\ http' = settleFailed(http, i)
        /\ event' = Event("queryReject", http[i], Null)
    /\ clock' = clock + 1
    /\ UNCHANGED <<wvars, bvars, page, conversations, chatbot, widgets, posts, calls>>

\* The Start Search button's [disabled] binding.
searchBtnDisabled == trim(conversations.searchQuery) = <<>> \/ conversations.isProcessing

InitConversations ==
    [searchQuery |-> <<>>, isProcessing |-> FALSE, currentResponse |-> Null,
     queryHistory |-> <<>>]

\* The text simulateApiCall builds around the query it was called with.
simulateApiCall(query) == [k |-> "mock", about |-> query]

convOthers == <<wvars, bvars, page, analytics, chatbot, widgets>>

typeSearch ==
    /\ page = "conversations"
    /\ ~conversations.isProcessing
    /\ \E t \in Texts \ {conversations.searchQuery} :
          conversations' = [conversations EXCEPT !.searchQuery = t]
    /\ event' = Event("typeSearch", Null, Null)
    /\ UNCHANGED <<convOthers, localStorage, http, clock, posts, calls>>

selectHistoryItem ==
    /\ page = "conversations"
    /\ \E i \in DOMAIN conversations.queryHistory :
          conversations' = [conversations EXCEPT
                              !.currentResponse = conversations.queryHistory[i],
                              !.searchQuery = conversations.queryHistory[i].query]
    /\ event' = Event("selectHistoryItem", Null, Null)
    /\ UNCHANGED <<convOthers, localStorage, http, clock, posts, calls>>

\* clearHistory with the confirm dialog accepted.
clearHistory ==
    /\ page = "conversations"
    /\ conversations.queryHistory # <<>>
    /\ conversations' = [conversations EXCEPT !.queryHistory = <<>>, !.currentResponse = Null]
    /\ localStorage' = [localStorage EXCEPT ![ConversationsKey] = Null]
    /\ event' = Event("clearHistory", Null, Null)
    /\ UNCHANGED <<convOthers, http, clock, posts, calls>>

SearchRequest ==
    [kind |-> "search",
     body |-> [query |-> conversations.searchQuery],
     queryId |-> IdOf(clock),
     startTime |-> clock]

\* executeSearch up to its await, started from the Start Search button.
executeSearch ==
    /\ page = "conversations"
    /\ ~searchBtnDisabled
    /\ trim(conversations.searchQuery) # <<>>
    /\ clock < MaxSearches
    /\ Len(http) < MaxPending
    /\ conversations' = [conversations EXCEPT
                           !.currentResponse =
                               Entry(IdOf(clock), conversations.searchQuery, Str(""),
                                     DateOf(clock), "loading", Undefined),
                           !.isProcessing = TRUE]
    /\ http' = Append(http, SearchRequest)
    /\ event' = Event("executeSearch", SearchRequest, Null)
    /\ UNCHANGED <<convOthers, localStorage, clock, posts, calls>>

\* executeSearch after simulateApiCall's timer fired (the mock never rejects).
executeSearchThen(c, ls, request, now) ==
    LET successResponse ==
            Entry(request.queryId, c.searchQuery, simulateApiCall(request.body.query),
                  DateOf(now), "success", Num(now - request.startTime))
        history == Append(c.queryHistory, successResponse)
    IN  [component |-> [c EXCEPT !.currentResponse = successResponse,
                                 !.queryHistory = history,
                                 !.isProcessing = FALSE],
         storage |-> saveQueryHistory(ls, ConversationsKey, history)]

searchResolve ==
    /\ page = "conversations"
    /\ \E i \in DOMAIN http :
        /\ http[i].kind = "search"
        /\ LET after == executeSearchThen(conversations, localStorage, http[i], clock + 1)
           IN  /\ conversations' = after.component
               /\ localStorage' = after.storage
        /\ http' = Without(http, i)
        /\ event' = Event("searchResolve", http[i], Null)
    /\ clock' = clock + 1
    /\ UNCHANGED <<convOthers, posts, calls>>

(***************************************************************************)
(* AppComponent: authentication.                                            *)
(***************************************************************************)
MinKeyLen == 8

UpperOf == ("a" :> "A") @@ ("b" :> "B") @@ ("d" :> "D")

charAt0Upper(part) ==
    IF part = <<>> THEN part
    ELSE <<IF part[1] \in DOMAIN UpperOf THEN UpperOf[part[1]] ELSE part[1]>> \o Tail(part)

\* s up to its first occurrence of sep (all of s without one): split(sep)[0]
RECURSIVE Before(_, _)
Before(s, sep) ==
    IF s = <<>> \/ Head(s) = sep THEN <<>> ELSE <<Head(s)>> \o Before(Tail(s), sep)

\* username.split('.').map(capitalise).join(' ')
RECURSIVE CapitalizeParts(_)
CapitalizeParts(s) ==
    LET part == Before(s, ".")
    IN  IF Len(part) = Len(s) THEN charAt0Upper(part)
        ELSE charAt0Upper(part) \o <<" ">>
             \o CapitalizeParts(SubSeq(s, Len(part) + 2, Len(s)))

extractNameFromEmail(email) == CapitalizeParts(Before(email, "@"))

\* [^\s@]
NotSpaceNorAt(c) == c \notin WhiteSpace /\ c # "@"

isValidEmailSpaces(email) ==
    \E i \in DOMAIN email : \E j \in DOMAIN email :
        /\ 1 < i /\ i + 1 < j /\ j < Len(email)
        /\ email[i] = "@"
        /\ email[j] = "."
        /\ \A n \in DOMAIN email : n \notin {i, j} => email[n] # "@"

\* /^[^\s@]+@[^\s@]+\.[^\s@]+$/.test(email)
isValidEmail(email) ==
    \E i \in DOMAIN email : \E j \in DOMAIN email :
        /\ 1 < i /\ i + 1 < j /\ j < Len(email)
        /\ email[i] = "@"
        /\ email[j] = "."
        /\ \A n \in DOMAIN email : n \notin {i, j} => NotSpaceNorAt(email[n])

User(email, apiKey, name) ==
    [k |-> "obj", email |-> email, apiKey |-> apiKey, name |-> name]

FieldUser == User(<<"d", "e", "m", "o", "@", "t", "h", "i", "r", "d", "e", "y", "e", ".", "a", "i">>, <<"d", "e", "m", "o", "-", "k", "e", "y">>, <<"D", "e", "m", "o", " ", "U", "s", "e", "r">>)
DemoUser == User(<<"d", "e", "m", "o", "@", "t", "h", "i", "r", "d", "e", "y", "e", ".", "a", "i">>, <<"d", "e", "m", "o", "-", "k", "e", "y", "-", "1", "2", "3">>, <<"D", "e", "m", "o", " ", "U", "s", "e", "r">>)

LoginForm(email, apiKey) == [email |-> email, apiKey |-> apiKey]

\* The fields as their initialisers set them.
AppFields ==
    [isAuthenticated |-> TRUE, currentUser |-> FieldUser, loginForm |-> LoginForm(<<>>, <<>>)]

\* JSON.stringify(user): all three properties are strings.
stringifyUser(user) == JsonText(user)

checkAuthentication(a, ls) ==
    IF Truthy(ls[UserKey])
    THEN [a EXCEPT !.currentUser = parse(ls[UserKey]), !.isAuthenticated = TRUE]
    ELSE a

\* new AppComponent(): the field initialisers, then checkAuthentication.
InitApp(ls) == checkAuthentication(AppFields, ls)

Emails ==
    {<<>>, <<" ">>, <<"a", "@", "b", ".", "c">>, <<"a", ".", "b", "@", "c", ".", "d">>, <<"a", "@", "b">>, <<"a", " ", "b", "@", "c", ".", "d">>, <<"@", "b", ".", "c">>, <<"a", "@", "b", ".">>, <<"a", "@", "@", "b", ".", "c">>, <<"a", "@", ".", "c">>, <<"a", "@", "b", ".", "c", "\n">>}

ApiKeys == {<<>>, <<"1", "2", "3", "4", "5", "6", "7">>, <<"1", "2", "3", "4", "5", "6", "7", "8">>, <<" ", " ", " ", " ", " ", " ", " ", " ">>}

appOthers == <<wvars, mcp, shown, charts, bedrock, page, widgets, chatbot, analytics, conversations,
               http, clock, posts, calls>>

typeEmail ==
    /\ page = "app"
    /\ \E e \in Emails \ {app.loginForm.email} :
          app' = [app EXCEPT !.loginForm.email = e]
    /\ event' = Event("typeEmail", Null, Null)
    /\ UNCHANGED <<appOthers, localStorage>>

typeApiKey ==
    /\ page = "app"
    /\ \E key \in ApiKeys \ {app.loginForm.apiKey} :
          app' = [app EXCEPT !.loginForm.apiKey = key]
    /\ event' = Event("typeApiKey", Null, Null)
    /\ UNCHANGED <<appOthers, localStorage>>

login ==
    /\ page = "app"
    /\ LET form == app.loginForm
       IN  IF form.email = <<>> \/ form.apiKey = <<>>
           THEN UNCHANGED <<app, localStorage>>
           ELSE IF isValidEmail(form.email) /\ Len(form.apiKey) >= MinKeyLen
           THEN LET user == User(form.email, form.apiKey, extractNameFromEmail(form.email))
                IN  /\ localStorage' = [localStorage EXCEPT ![UserKey] = stringifyUser(user)]
                    /\ app' = [isAuthenticated |-> TRUE, currentUser |-> user,
                               loginForm |-> LoginForm(<<>>, <<>>)]
           ELSE UNCHANGED <<app, localStorage>>
    /\ event' = Event("login", app.loginForm, Null)
    /\ UNCHANGED appOthers

logoutOf(a, ls) ==
    [app |-> [a EXCEPT !.currentUser = Null, !.isAuthenticated = FALSE],
     storage |-> [ls EXCEPT ![UserKey] = Null]]

logout ==
    /\ page = "app"
    /\ app' = logoutOf(app, localStorage).app
    /\ localStorage' = logoutOf(app, localStorage).storage
    /\ event' = Event("logout", Null, Null)
    /\ UNCHANGED appOthers

toggleAuthDemo ==
    /\ page = "app"
    /\ IF app.isAuthenticated
       THEN /\ app' = logoutOf(app, localStorage).app
            /\ localStorage' = logoutOf(app, localStorage).storage
       ELSE /\ app' = [app EXCEPT !.currentUser = DemoUser, !.isAuthenticated = TRUE]
            /\ UNCHANGED localStorage
    /\ event' = Event("toggleAuthDemo", Null, Null)
    /\ UNCHANGED appOthers

(***************************************************************************)
(* BedrockComponent (bedrock.component.ts): the connection and the chat    *)
(* with a selected model; the model call is a timer of 1000 to 3000 ms.    *)
(***************************************************************************)
\* Two of the availableModels.
BedrockModels == {"anthropic.claude-3-sonnet-20240229-v1:0", "amazon.nova-pro-v1:0"}

\* Math.floor(Math.random() * 200) + 50 at its two ends.
AssistantTokenCounts == {50, 249}

\* The index Math.floor(Math.random() * responses.length) picks.
MockTemplates == 1..4

BedrockConnection(connected) ==
    [k |-> "obj", region |-> Str("us-east-1"), accessKeyId |-> Str(""),
     secretAccessKey |-> Str(""), sessionToken |-> Str(""), connected |-> connected]

ChatMessage(id, role, content, timestamp, model, tokenCount) ==
    [k |-> "obj", id |-> id, role |-> role, content |-> content, timestamp |-> timestamp,
     model |-> model, tokenCount |-> tokenCount]

\* Math.ceil(text.length / 4)
estimateTokens(text) == (Len(text) + 3) \div 4

\* One of the four canned replies around the input.
generateMockResponse(input, template) == [k |-> "mock", template |-> template, about |-> input]

BedrockFields ==
    [bedrockConnection |-> BedrockConnection(FALSE), connecting |-> FALSE,
     connectionStatus |-> "disconnected", selectedModel |-> Null, chatMessages |-> <<>>,
     currentMessage |-> <<>>, isGenerating |-> FALSE, totalTokens |-> 0]

\* ngOnInit: checkStoredConnection.
checkStoredConnection(b, ls) ==
    IF Truthy(ls[BedrockKey])
    THEN LET connection == parse(ls[BedrockKey])
         IN  [b EXCEPT !.bedrockConnection = connection,
                       !.connectionStatus = IF connection.connected
                                            THEN "connected" ELSE "disconnected"]
    ELSE b

InitBedrock(ls) == checkStoredConnection(BedrockFields, ls)

bedrockOthers == <<wvars, mcp, app, shown, charts, page, widgets, chatbot, analytics,
                   conversations, posts, calls>>

\* The chat section is in the page once connected and with a model selected.
chatSectionShown == bedrock.bedrockConnection.connected /\ bedrock.selectedModel # Null

\* connectToBedrock up to its await, from the form's submit button
\* ([disabled]="connecting()").
connectToBedrock ==
    /\ page = "bedrock"
    /\ ~bedrock.bedrockConnection.connected
    /\ ~bedrock.connecting
    /\ Len(http) < MaxPending
    /\ bedrock' = [bedrock EXCEPT !.connecting = TRUE]
    /\ http' = Append(http, [kind |-> "connect", body |-> Null])
    /\ event' = Event("connectToBedrock", Null, Null)
    /\ UNCHANGED <<bedrockOthers, localStorage, clock>>

\* connectToBedrock after its 2000 ms.
connectResolve ==
    /\ page = "bedrock"
    /\ \E i \in DOMAIN http :
        /\ http[i].kind = "connect"
        /\ bedrock' = [bedrock EXCEPT !.bedrockConnection = BedrockConnection(TRUE),
                                      !.connectionStatus = "connected",
                                      !.connecting = FALSE]
        /\ localStorage' = [localStorage EXCEPT
                              ![BedrockKey] = JsonText(BedrockConnection(TRUE))]
        /\ http' = Without(http, i)
        /\ event' = Event("connectResolve", http[i], Null)
    /\ UNCHANGED <<bedrockOthers, clock>>

selectModel ==
    /\ page = "bedrock"
    /\ bedrock.bedrockConnection.connected
    /\ \E model \in BedrockModels :
          bedrock' = [bedrock EXCEPT !.selectedModel = Str(model),
                                     !.chatMessages = <<>>,
                                     !.totalTokens = 0]
    /\ event' = Event("selectModel", Null, Null)
    /\ UNCHANGED <<bedrockOthers, localStorage, http, clock>>

clearChat ==
    /\ page = "bedrock"
    /\ chatSectionShown
    /\ bedrock' = [bedrock EXCEPT !.chatMessages = <<>>, !.totalTokens = 0]
    /\ event' = Event("clearChat", Null, Null)
    /\ UNCHANGED <<bedrockOthers, localStorage, http, clock>>

\* [(ngModel)]="currentMessage"; the textarea is disabled while generating.
typeBedrockMessage ==
    /\ page = "bedrock"
    /\ chatSectionShown
    /\ ~bedrock.isGenerating
    /\ \E t \in Texts \ {bedrock.currentMessage} :
          bedrock' = [bedrock EXCEPT !.currentMessage = t]
    /\ event' = Event("typeBedrockMessage", Null, Null)
    /\ UNCHANGED <<bedrockOthers, localStorage, http, clock>>

BedrockRequest == [kind |-> "bedrock", body |-> [content |-> bedrock.currentMessage]]

\* sendMessage from its guard to its await.
bedrockSendMessageBody(b, now) ==
    LET userMessage ==
            ChatMessage(IdOf(now), "user", Text(b.currentMessage), DateOf(now),
                        b.selectedModel, Num(estimateTokens(b.currentMessage)))
    IN  [b EXCEPT !.chatMessages = Append(@, userMessage),
                  !.totalTokens = @ + estimateTokens(b.currentMessage),
                  !.currentMessage = <<>>,
                  !.isGenerating = TRUE]

\* The guard at the top of sendMessage.
bedrockSendGuard(b) == trim(b.currentMessage) = <<>> \/ b.isGenerating

\* The Send button and Enter in the textarea.
bedrockSendMessage ==
    /\ page = "bedrock"
    /\ chatSectionShown
    /\ ~bedrockSendGuard(bedrock)
    /\ clock < MaxSends
    /\ Len(http) < MaxPending
    /\ bedrock' = bedrockSendMessageBody(bedrock, clock)
    /\ http' = Append(http, BedrockRequest)
    /\ event' = Event("bedrockSendMessage", BedrockRequest, Null)
    /\ UNCHANGED <<bedrockOthers, localStorage, clock>>

bedrockSendMessageThenStaysBusy(b, request, template, tokenCount, now) ==
    LET assistantMessage ==
            ChatMessage(IdOf(now + 1), "assistant",
                        generateMockResponse(request.body.content, template), DateOf(now),
                        b.selectedModel, Num(tokenCount))
    IN  [b EXCEPT !.chatMessages = Append(@, assistantMessage),
                  !.totalTokens = @ + tokenCount]

\* sendMessage after its timer: the try block and the finally block (nothing
\* in the try block throws).
bedrockSendMessageThen(b, request, template, tokenCount, now) ==
    LET assistantMessage ==
            ChatMessage(IdOf(now + 1), "assistant",
                        generateMockResponse(request.body.content, template), DateOf(now),
                        b.selectedModel, Num(tokenCount))
    IN  [b EXCEPT !.chatMessages = Append(@, assistantMessage),
                  !.totalTokens = @ + tokenCount,
                  !.isGenerating = FALSE]

bedrockResolve ==
    /\ page = "bedrock"
    /\ \E i \in DOMAIN http, template \in MockTemplates, tokenCount \in AssistantTokenCounts :
        /\ http[i].kind = "bedrock"
        /\ bedrock' = bedrockSendMessageThen(bedrock, http[i], template, tokenCount, clock + 1)
        /\ http' = Without(http, i)
        /\ event' = Event("bedrockResolve", http[i], Null)
    /\ clock' = clock + 1
    /\ UNCHANGED <<bedrockOthers, localStorage>>

(***************************************************************************)
(* Page load.                                                              *)
(***************************************************************************)
\* A refresh: the components are constructed anew from localStorage, and the
\* outcome of a request still in flight is never delivered.
reload ==
    /\ widgets' = IF page \in {"dashboard", "chatbot"}
                  THEN loadWidgetsFromStorage(localStorage) ELSE widgets
    /\ chatbot' = InitChatbot(chatbot.dashboardService)
    /\ analytics' = IF page = "analytics"
                    THEN [InitQueryPage EXCEPT
                            !.queryHistory = loadQueryHistory(localStorage, AnalyticsKey)]
                    ELSE analytics
    /\ conversations' = IF page = "conversations"
                        THEN [InitConversations EXCEPT
                                !.queryHistory = loadQueryHistory(localStorage, ConversationsKey)]
                        ELSE conversations
    /\ app' = IF page = "app" THEN InitApp(localStorage) ELSE app
    /\ bedrock' = IF page = "bedrock" THEN InitBedrock(localStorage) ELSE bedrock
    /\ http' = <<>>
    /\ posts' = 0
    /\ calls' = 0
    /\ event' = Event("reload", Null, Null)
    /\ UNCHANGED <<wvars, mcp, shown, charts, page, localStorage, clock>>

Pages == {"dashboard", "chatbot", "analytics", "conversations", "app", "bedrock"}

Init ==
    /\ queryResult = Null
    /\ generated = Unset
    /\ page \in Pages
    /\ widgets = <<>>
    /\ localStorage = [key \in StorageKeys |-> Null]
    /\ \E hasService \in BOOLEAN : chatbot = InitChatbot(hasService)
    /\ analytics = InitQueryPage
    /\ conversations = InitConversations
    /\ http = <<>>
    /\ clock = 0
    /\ posts = 0
    /\ calls = 0
    /\ event = NoEvent
    /\ mcp = Unset
    /\ app = InitApp(localStorage)
    /\ shown = Unset
    /\ charts = Unset
    /\ bedrock = InitBedrock(localStorage)

Next ==
    \/ openChatbot \/ closeChatbot \/ typeMessage \/ toggleAutoDashboard
    \/ sendMessage \/ messageResolve \/ messageReject \/ startResolve \/ startReject
    \/ generateAndAdd \/ removeWidgetById \/ updateWidgetById \/ clearAll
    \/ typeQuery \/ clearOutput \/ loadHistoryItem \/ executeQuery \/ queryResolve \/ queryReject
    \/ typeSearch \/ selectHistoryItem \/ clearHistory \/ executeSearch \/ searchResolve
    \/ typeEmail \/ typeApiKey \/ login \/ logout \/ toggleAuthDemo
    \/ connectToBedrock \/ connectResolve \/ selectModel \/ clearChat
    \/ typeBedrockMessage \/ bedrockSendMessage \/ bedrockResolve
    \/ reload

Spec == Init /\ [][Next]_vars

(***************************************************************************)
(* The request methods called while their component is busy. The templates *)
(* disable the buttons and textareas then, so these calls come from code   *)
(* outside the template; each action is the method run from its first line.*)
(***************************************************************************)
\* ChatbotComponent.sendMessage: the guard returns.
callSendMessage ==
    /\ page = "chatbot"
    /\ chatbot.isGenerating
    /\ trim(chatbot.currentMessage) = <<>> \/ chatbot.isGenerating
    /\ event' = Event("callSendMessage", Null, Null)
    /\ UNCHANGED <<others, chatbot, widgets, localStorage, http, clock, posts, calls>>

\* BedrockComponent.sendMessage: the guard returns.
callBedrockSendMessage ==
    /\ page = "bedrock"
    /\ bedrock.isGenerating
    /\ bedrockSendGuard(bedrock)
    /\ event' = Event("callBedrockSendMessage", Null, Null)
    /\ UNCHANGED <<bedrockOthers, bedrock, localStorage, http, clock>>

\* AnalyticsComponent.executeQuery: its guard looks at the query text only.
callExecuteQuery ==
    /\ page = "analytics"
    /\ analytics.isProcessing
    /\ clock < MaxQueries
    /\ Len(http) < MaxPending
    /\ IF trim(analytics.queryText) = <<>>
       THEN UNCHANGED <<analytics, http, posts, calls>>
       ELSE /\ analytics' = [analytics EXCEPT
                               !.currentResponse =
                                   Entry(IdOf(clock), analytics.queryText, Null,
                                         DateOf(clock), "loading", Undefined),
                               !.isProcessing = TRUE]
            /\ http' = Append(http, QueryRequest)
            /\ posts' = posts + 1
            /\ calls' = calls + 1
    /\ event' = Event("callExecuteQuery", QueryRequest, Null)
    /\ UNCHANGED <<wvars, bvars, page, conversations, chatbot, widgets, localStorage, clock>>

\* ConversationsComponent.executeSearch: its guard looks at the query text only.
callExecuteSearch ==
    /\ page = "conversations"
    /\ conversations.isProcessing
    /\ clock < MaxSearches
    /\ Len(http) < MaxPending
    /\ IF trim(conversations.searchQuery) = <<>>
       THEN UNCHANGED <<conversations, http>>
       ELSE /\ conversations' = [conversations EXCEPT
                                   !.currentResponse =
                                       Entry(IdOf(clock), conversations.searchQuery, Str(""),
                                             DateOf(clock), "loading", Undefined),
                                   !.isProcessing = TRUE]
            /\ http' = Append(http, SearchRequest)
    /\ event' = Event("callExecuteSearch", SearchRequest, Null)
    /\ UNCHANGED <<convOthers, localStorage, clock, posts, calls>>

NextCalls == callSendMessage \/ callBedrockSendMessage \/ callExecuteQuery \/ callExecuteSearch

SpecCalls == Init /\ [][Next \/ NextCalls]_vars

(***************************************************************************)
(* The /api/chatbot/mcp-message endpoint. The backend (backend/app.py) is  *)
(* not among the sources; it is modelled from the MCP auto-selection guide *)
(* and the chatbot integration flow.                                       *)
(***************************************************************************)
MaxWords == 3

Servers == {"filesystem", "database", "web_scraper"}

\* Some of the keywords the guide lists for each server.
Keywords ==
    [filesystem |-> {<<"f", "i", "l", "e">>, <<"r", "e", "a", "d">>},
     database |-> {<<"s", "q", "l">>, <<"q", "u", "e", "r", "y">>},
     web_scraper |-> {<<"u", "r", "l">>, <<"w", "e", "b">>}]

Words == {<<"F", "i", "l", "e">>, <<"r", "e", "a", "d">>, <<"S", "Q", "L">>, <<"q", "u", "e", "r", "y">>, <<"u", "r", "l">>, <<"h", "i">>}

RECURSIVE Join(_)
Join(words) ==
    IF words = <<>> THEN <<>>
    ELSE IF Len(words) = 1 THEN words[1]
    ELSE words[1] \o <<" ">> \o Join(Tail(words))

McpMessages == {Join(ws) : ws \in UNION {[1..n -> Words] : n \in 0..MaxWords}}

\* The number of the server's keywords found in the message.
score(server, message) ==
    Cardinality({kw \in Keywords[server] : includes(toLowerCase(message), kw)})

auto_select_serverFirstMatch(message) ==
    IF \A srv \in Servers : score(srv, message) = 0 THEN {"filesystem"}
    ELSE IF score("filesystem", message) > 0 THEN {"filesystem"}
    ELSE IF score("database", message) > 0 THEN {"database"}
    ELSE {"web_scraper"}

auto_select_serverDefaultDatabase(message) ==
    IF \A srv \in Servers : score(srv, message) = 0 THEN {"database"}
    ELSE {srv \in Servers : \A other \in Servers : score(other, message) <= score(srv, message)}

\* The servers auto-selection may pick: one with the highest score (the guide
\* does not say which of several), filesystem when nothing matches.
auto_select_server(message) ==
    IF \A srv \in Servers : score(srv, message) = 0 THEN {"filesystem"}
    ELSE {srv \in Servers : \A other \in Servers : score(other, message) <= score(srv, message)}

select_serverAlwaysAuto(request) ==
    [servers |-> auto_select_server(request.message), auto |-> TRUE]

\* mcp_server_id = request.mcp_server_id or auto_select_server(request.message)
select_server(request) ==
    IF Truthy(request.mcp_server_id)
    THEN [servers |-> {request.mcp_server_id.v}, auto |-> FALSE]
    ELSE [servers |-> auto_select_server(request.message), auto |-> TRUE]

\* Requests as the chatbot sends them (mcp_server_id: this.selectedMCPServer(),
\* which nothing ever sets) and as other API clients may.
McpRequests ==
    [from : {"frontend"}, message : McpMessages,
     mcp_server_id : {InitChatbot(FALSE).selectedMCPServer}]
    \cup [from : {"api"}, message : McpMessages,
          mcp_server_id : {Undefined, Null, Str("")} \cup {Str(srv) : srv \in Servers}]

InitMCP ==
    /\ mcp \in [request : McpRequests, server : {Null}, auto : {FALSE}]
    /\ page = "backend"
    /\ queryResult = Null
    /\ generated = Unset
    /\ widgets = <<>>
    /\ localStorage = [key \in StorageKeys |-> Null]
    /\ chatbot = InitChatbot(FALSE)
    /\ analytics = InitQueryPage
    /\ conversations = InitConversations
    /\ http = <<>>
    /\ clock = 0
    /\ posts = 0
    /\ calls = 0
    /\ event = NoEvent
    /\ app = Unset
    /\ shown = Unset
    /\ charts = Unset
    /\ bedrock = Unset

\* The endpoint picks the MCP server to call for the request.
send_chatbot_mcp_message ==
    /\ page = "backend"
    /\ mcp.server = Null
    /\ LET selection == select_server(mcp.request)
       IN  \E srv \in selection.servers :
              mcp' = [mcp EXCEPT !.server = Str(srv), !.auto = selection.auto]
    /\ UNCHANGED <<wvars, uivars, app, shown, charts, bedrock>>

NextMCP == send_chatbot_mcp_message

SpecMCP == InitMCP /\ [][NextMCP]_vars

(***************************************************************************)
(* AnalyticsComponent with charts: chart detection after a query.          *)
(***************************************************************************)
checkIfChartableOneColumn(data) ==
    IF /\ data \notin {Null, Undefined}
       /\ Truthy(data.raw_data)
       /\ Truthy(data.raw_data.rows)
       /\ Truthy(data.raw_data.columns)
    THEN LET rows == data.raw_data.rows.items
             columns == data.raw_data.columns.items
         IN  IF Len(rows) > 0 /\ Len(columns) >= 1
             THEN \E i \in DOMAIN columns : IsNumericType(columns[i])
             ELSE FALSE
    ELSE FALSE

checkIfChartable(data) ==
    IF /\ data \notin {Null, Undefined}
       /\ Truthy(data.raw_data)
       /\ Truthy(data.raw_data.rows)
       /\ Truthy(data.raw_data.columns)
    THEN LET rows == data.raw_data.rows.items
             columns == data.raw_data.columns.items
         IN  IF Len(rows) > 0 /\ Len(columns) >= 2
             THEN \E i \in DOMAIN columns : IsNumericType(columns[i])
             ELSE FALSE
    ELSE FALSE

\* executeQuery's success branch, from "Check if we can show chart" on.
showAfterQuery(jsonResponse) ==
    LET canShowChart == checkIfChartable(jsonResponse)
    IN  [canShowChart |-> canShowChart,
         viewMode |-> IF canShowChart THEN "chart" ELSE "json"]

(***************************************************************************)
(* generateWidgetFromQueryResult on its own.                               *)
(***************************************************************************)
InitWidget ==
    /\ queryResult \in QueryResults
    /\ generated = Unset
    /\ page = "service"
    /\ widgets = <<>>
    /\ localStorage = [key \in StorageKeys |-> Null]
    /\ chatbot = InitChatbot(FALSE)
    /\ analytics = InitQueryPage
    /\ conversations = InitConversations
    /\ http = <<>>
    /\ clock = 0
    /\ posts = 0
    /\ calls = 0
    /\ event = NoEvent
    /\ mcp = Unset
    /\ app = Unset
    /\ shown = Unset
    /\ charts = Unset
    /\ bedrock = Unset

\* One call of generateWidgetFromQueryResult on the drawn input.
Generate ==
    /\ page = "service"
    /\ generated = Unset
    /\ generated' = generateWidgetFromQueryResult(queryResult, WidgetId(0))
    /\ UNCHANGED <<queryResult, uivars, bvars>>

\* A query of the analytics page succeeds with the drawn input as its response.
Show ==
    /\ page = "service"
    /\ shown = Unset
    /\ shown' = showAfterQuery(queryResult)
    /\ UNCHANGED <<wvars, uivars, mcp, app, charts, bedrock>>

NextWidget == Generate \/ Show

SpecWidget == InitWidget /\ [][NextWidget]_vars

(***************************************************************************)
(* AnalyticsComponent with charts: the Chart.js object of the page, the    *)
(* canvas it draws on and the generateChart timers.                        *)
(***************************************************************************)
MaxTimers == 2

\* The queries typed on the page.
ChartTexts == { <<>>, <<"a">>, <<"S", "a", "l", "e", "s">> }

\* The words generateAnalyticsJSON and determineChartType look for.
FunnelWords == { <<"f", "u", "n", "n", "e", "l">>, <<"s", "t", "a", "t", "u", "s">>,
                 <<"s", "t", "a", "g", "e">> }
SalesWords == { <<"s", "a", "l", "e", "s">>, <<"r", "e", "v", "e", "n", "u", "e">>,
                <<"p", "r", "o", "d", "u", "c", "t">> }
UserWords == { <<"u", "s", "e", "r">>, <<"e", "n", "g", "a", "g", "e", "m", "e", "n", "t">>,
               <<"a", "c", "t", "i", "v", "e">> }
TimeWords == { <<"d", "a", "y">>, <<"w", "e", "e", "k">>, <<"t", "i", "m", "e">> }

IncludesAny(s, keywords) == \E kw \in keywords : includes(s, kw)

MockColumn(friendly, type, name) == [friendly_name |-> friendly, type |-> type, name |-> name]

MockRows(labelName, valueName, cells) ==
    Arr([i \in DOMAIN cells |->
            Obj((labelName :> Str(cells[i][1])) @@ (valueName :> Num(cells[i][2])))])

\* The object generateAnalyticsJSON returns (session_id and timestamp, which
\* nothing on the page reads, are left out).
MockResponse(query, columns, rows) ==
    [k |-> "obj", success |-> TRUE, prompt |-> query,
     raw_data |-> RawData(Arr(columns), rows), row_count |-> Len(rows.items), error |-> Null]

\* generateAnalyticsJSON after its delay of 1000 to 2000 ms.
generateAnalyticsJSON(query) ==
    LET queryLower == toLowerCase(query)
    IN  IF IncludesAny(queryLower, FunnelWords)
        THEN MockResponse(query,
                 <<MockColumn("Status", "string", "current_status"),
                   MockColumn("Count", "integer", "count")>>,
                 MockRows("current_status", "count",
                          <<<<"CREATED", 21123>>, <<"APPLICATION_APPROVED", 7993>>,
                            <<"UTR_RECEIVED", 3456>>, <<"COMPLETED", 2134>>>>))
        ELSE IF IncludesAny(queryLower, SalesWords)
        THEN MockResponse(query,
                 <<MockColumn("Product Category", "string", "category"),
                   MockColumn("Revenue", "integer", "revenue")>>,
                 MockRows("category", "revenue",
                          <<<<"Electronics", 45230>>, <<"Clothing", 32150>>,
                            <<"Home & Garden", 28900>>, <<"Sports", 19800>>,
                            <<"Books", 15600>>>>))
        ELSE IF IncludesAny(queryLower, UserWords)
        THEN MockResponse(query,
                 <<MockColumn("Day", "string", "day"),
                   MockColumn("Active Users", "integer", "users")>>,
                 MockRows("day", "users",
                          <<<<"Monday", 8450>>, <<"Tuesday", 9120>>, <<"Wednesday", 8890>>,
                            <<"Thursday", 9560>>, <<"Friday", 10230>>, <<"Saturday", 7650>>,
                            <<"Sunday", 6890>>>>))
        ELSE MockResponse(query,
                 <<MockColumn("Channel", "string", "channel_name"),
                   MockColumn("Applications", "integer", "total_applications")>>,
                 MockRows("channel_name", "total_applications",
                          <<<<"EDI_PP_01", 15234>>, <<"WEB_DIRECT", 12890>>,
                            <<"MOBILE_APP", 9876>>, <<"PARTNER_API", 7654>>,
                            <<"BRANCH", 5432>>>>))

determineChartType(chartType, data) ==
    IF ~Truthy(data) \/ ~Truthy(data.raw_data) THEN chartType
    ELSE LET prompt == toLowerCase(data.prompt)
         IN  IF IncludesAny(prompt, FunnelWords) THEN "bar"
             ELSE IF IncludesAny(prompt, TimeWords) THEN "line"
             ELSE IF Len(data.raw_data.rows.items) <= 5 THEN "doughnut"
             ELSE "bar"

ChartTypes == {"bar", "line", "pie", "doughnut"}

\* A Chart.js object: whether destroy() was called on it, and whether the
\* canvas it was constructed on is the one in the page now.
Chart(destroyed, onCanvas) == [k |-> "chart", destroyed |-> destroyed, onCanvas |-> onCanvas]

\* Fields of the component, with the Chart objects that this.chart no longer
\* refers to but that were never destroyed (orphans, and whether one of them
\* holds the canvas in the page), whether the chartCanvas view query has an
\* element, and the pending setTimeout(() => this.generateChart(), 100)
\* callbacks in the order they were set.
InitChartPage ==
    [queryText |-> <<>>, viewMode |-> "chart", isProcessing |-> FALSE,
     currentResponse |-> Null, queryHistory |-> <<>>, chart |-> Null,
     canShowChart |-> FALSE, chartType |-> "bar",
     chartCanvas |-> FALSE, orphans |-> 0, orphanOnCanvas |-> FALSE, timers |-> <<>>]

\* A timer; due: it was set before the query now in flight started, so its
\* 100 ms run out before that query's 1000 ms do; stale: clearOutput ran
\* after it was set.
Timer == [due |-> FALSE, stale |-> FALSE]

\* The <canvas #chartCanvas> element is in the page when the three *ngIf
\* around it hold.
canvasInTemplate(c) == Truthy(c.currentResponse) /\ c.viewMode = "chart" /\ c.canShowChart

\* Change detection after a handler: the view query follows the template; a
\* canvas that leaves the page takes no Chart with it.
detectChanges(c) ==
    IF canvasInTemplate(c)
    THEN [c EXCEPT !.chartCanvas = TRUE]
    ELSE [c EXCEPT !.chartCanvas = FALSE,
                   !.orphanOnCanvas = FALSE,
                   !.chart = IF @ = Null THEN Null ELSE [@ EXCEPT !.onCanvas = FALSE]]

NonDestroyed(c) == c.orphans + (IF c.chart # Null /\ ~c.chart.destroyed THEN 1 ELSE 0)

canvasInUse(c) == c.orphanOnCanvas \/ (c.chart # Null /\ ~c.chart.destroyed /\ c.chart.onCanvas)

\* this.chart.destroy()
destroy(chart) == [chart EXCEPT !.destroyed = TRUE]

\* this.chart = new Chart(canvas, config), which throws when the canvas
\* still holds a Chart.
newChart(c) ==
    IF canvasInUse(c) THEN [component |-> c, created |-> FALSE]
    ELSE [component |->
              [c EXCEPT !.chart = Chart(FALSE, TRUE),
                        !.orphans = IF c.chart # Null /\ ~c.chart.destroyed THEN @ + 1 ELSE @,
                        !.orphanOnCanvas = @ \/ (c.chart # Null /\ ~c.chart.destroyed
                                                   /\ c.chart.onCanvas)],
          created |-> TRUE]

\* columns.find(...) || columns[0] and columns.find(...) || columns[1] are
\* read for their name: the read throws when the column is missing.
chartColumnsMissing(columns) ==
    \/ Len(columns) = 0
    \/ (Len(columns) < 2 /\ ~\E i \in DOMAIN columns : IsNumericType(columns[i]))

generateChart(c) ==
    IF ~Truthy(c.currentResponse) \/ ~c.chartCanvas THEN [component |-> c, created |-> FALSE]
    ELSE LET data == c.currentResponse.response
         IN  IF ~Truthy(data) \/ ~Truthy(data.raw_data)
             THEN [component |-> c, created |-> FALSE]
             ELSE LET d == IF c.chart # Null THEN [c EXCEPT !.chart = destroy(@)] ELSE c
                  IN  IF chartColumnsMissing(data.raw_data.columns.items)
                      THEN [component |-> d, created |-> FALSE]
                      ELSE newChart(d)

chartOthers == <<wvars, mcp, app, shown, bedrock, page, widgets, chatbot, analytics, conversations,
                 posts, calls>>

\* The query textarea and the Clear button beside it (disabled while processing).
typeChartQuery ==
    /\ page = "charts"
    /\ ~charts.isProcessing
    /\ \E t \in ChartTexts \ {charts.queryText} :
          charts' = detectChanges([charts EXCEPT !.queryText = t])
    /\ event' = Event("typeChartQuery", Null, Null)
    /\ UNCHANGED <<chartOthers, localStorage, http, clock>>

ChartQueryRequest ==
    [kind |-> "analyticsJSON", query |-> charts.queryText, queryId |-> IdOf(clock),
     startTime |-> clock]

\* executeQuery up to its await, from the Execute button
\* ([disabled]="!queryText.trim() || isProcessing"). The timers already set
\* run out before the mock's delay does.
executeChartQuery ==
    /\ page = "charts"
    /\ ~(trim(charts.queryText) = <<>> \/ charts.isProcessing)
    /\ clock < MaxQueries
    /\ charts' = detectChanges(
                   [charts EXCEPT
                      !.currentResponse = Entry(IdOf(clock), charts.queryText, Null,
                                                DateOf(clock), "loading", Undefined),
                      !.isProcessing = TRUE,
                      !.timers = [i \in DOMAIN @ |-> [@[i] EXCEPT !.due = TRUE]]])
    /\ http' = Append(http, ChartQueryRequest)
    /\ event' = Event("executeChartQuery", ChartQueryRequest, Null)
    /\ UNCHANGED <<chartOthers, localStorage, clock>>

\* executeQuery after generateAnalyticsJSON returned (it never throws).
executeChartQueryThen(c, ls, request, now) ==
    LET jsonResponse == generateAnalyticsJSON(request.query)
        successResponse ==
            Entry(request.queryId, c.queryText, jsonResponse, DateOf(now), "success",
                  Num(now - request.startTime))
        history == Append(c.queryHistory, successResponse)
        view == showAfterQuery(jsonResponse)
    IN  [component |->
             [c EXCEPT !.currentResponse = successResponse,
                       !.queryHistory = history,
                       !.canShowChart = view.canShowChart,
                       !.viewMode = view.viewMode,
                       !.chartType = IF view.canShowChart
                                     THEN determineChartType(@, jsonResponse) ELSE @,
                       !.timers = IF view.canShowChart THEN Append(@, Timer) ELSE @,
                       !.isProcessing = FALSE],
         storage |-> saveQueryHistory(ls, AnalyticsKey, history)]

chartQueryResolve ==
    /\ page = "charts"
    /\ Len(charts.timers) < MaxTimers
    /\ \A i \in DOMAIN charts.timers : ~charts.timers[i].due
    /\ \E i \in DOMAIN http :
        /\ http[i].kind = "analyticsJSON"
        /\ LET after == executeChartQueryThen(charts, localStorage, http[i], clock + 1)
           IN  /\ charts' = detectChanges(after.component)
               /\ localStorage' = after.storage
        /\ http' = Without(http, i)
        /\ event' = Event("chartQueryResolve", http[i], Null)
    /\ clock' = clock + 1
    /\ UNCHANGED chartOthers

\* The oldest setTimeout callback runs generateChart.
generateChartTimer ==
    /\ page = "charts"
    /\ charts.timers # <<>>
    /\ LET after == generateChart([charts EXCEPT !.timers = Tail(@)])
       IN  /\ charts' = detectChanges(after.component)
           /\ event' = Event("generateChartTimer", Head(charts.timers), Bool(after.created))
    /\ UNCHANGED <<chartOthers, localStorage, http, clock>>

clearChartOutput(c) ==
    [c EXCEPT !.currentResponse = Null, !.canShowChart = FALSE, !.viewMode = "json",
              !.chart = Null]

\* The Clear Output button ([disabled]="!currentResponse"). A Chart object
\* that is destroyed and dropped is gone.
clearOutputOfCharts ==
    /\ page = "charts"
    /\ Truthy(charts.currentResponse)
    /\ charts' = detectChanges(
                    [clearChartOutput(charts) EXCEPT
                        !.timers = [i \in DOMAIN @ |-> [@[i] EXCEPT !.stale = TRUE]]])
    /\ event' = Event("clearOutputOfCharts", Null, Null)
    /\ UNCHANGED <<chartOthers, localStorage, http, clock>>

\* The JSON / Chart buttons (*ngIf="canShowChart").
toggleView ==
    /\ page = "charts"
    /\ charts.canShowChart
    /\ \E mode \in {"json", "chart"} :
        /\ mode = "chart" => Len(charts.timers) < MaxTimers
        /\ charts' = detectChanges(
                        [charts EXCEPT !.viewMode = mode,
                                       !.timers = IF mode = "chart" /\ charts.canShowChart
                                                  THEN Append(@, Timer) ELSE @])
    /\ event' = Event("toggleView", Null, Null)
    /\ UNCHANGED <<chartOthers, localStorage, http, clock>>

\* The chart type buttons, which are in the page beside the canvas.
changeChartType ==
    /\ page = "charts"
    /\ charts.chartCanvas
    /\ \E type \in ChartTypes :
          LET after == generateChart([charts EXCEPT !.chartType = type])
          IN  /\ charts' = detectChanges(after.component)
              /\ event' = Event("changeChartType", Null, Bool(after.created))
    /\ UNCHANGED <<chartOthers, localStorage, http, clock>>

loadChartHistoryItem ==
    /\ page = "charts"
    /\ \E i \in DOMAIN charts.queryHistory :
          charts' = detectChanges(
                       [charts EXCEPT !.currentResponse = charts.queryHistory[i],
                                      !.queryText = charts.queryHistory[i].query])
    /\ event' = Event("loadChartHistoryItem", Null, Null)
    /\ UNCHANGED <<chartOthers, localStorage, http, clock>>

\* A refresh of the page: the component, its Chart and its timers go with the
\* old document; the new component reads its history from localStorage.
reloadCharts ==
    /\ page = "charts"
    /\ charts' = [InitChartPage EXCEPT
                    !.queryHistory = loadQueryHistory(localStorage, AnalyticsKey)]
    /\ http' = <<>>
    /\ event' = Event("reloadCharts", Null, Null)
    /\ UNCHANGED <<chartOthers, localStorage, clock>>

InitCharts ==
    /\ charts = InitChartPage
    /\ page = "charts"
    /\ queryResult = Null
    /\ generated = Unset
    /\ widgets = <<>>
    /\ localStorage = [key \in StorageKeys |-> Null]
    /\ chatbot = InitChatbot(FALSE)
    /\ analytics = InitQueryPage
    /\ conversations = InitConversations
    /\ http = <<>>
    /\ clock = 0
    /\ posts = 0
    /\ calls = 0
    /\ event = NoEvent
    /\ mcp = Unset
    /\ app = Unset
    /\ shown = Unset
    /\ bedrock = Unset

NextCharts ==
    \/ typeChartQuery \/ executeChartQuery \/ chartQueryResolve \/ generateChartTimer
    \/ clearOutputOfCharts \/ toggleView \/ changeChartType \/ loadChartHistoryItem
    \/ reloadCharts

SpecCharts == InitCharts /\ [][NextCharts]_vars

(***************************************************************************)
(* Claims about generateWidgetFromQueryResult (checked under SpecWidget).  *)
(***************************************************************************)
WidgetTypes == {"metric", "table", "chart", "text"}

IsWidget(x) == x.k = "widget"

\* C9 (as claimed): for every QueryResult the call returns, without throwing,
\* null or a widget of type metric, table, chart or text.
C9_NeverThrows ==
    generated # Unset =>
        \/ generated = Null
        \/ IsWidget(generated) /\ generated.type \in WidgetTypes

\* The chart criteria as documented: a date/time column (typed date or
\* datetime, or named after a date or a time), a numeric column, 2 to 50 rows.
IsDateTimeColumn(col) ==
    \/ col.type \in {"date", "datetime"}
    \/ includes(toLowerCase(col.name), <<"d", "a", "t", "e">>)
    \/ includes(toLowerCase(col.name), <<"t", "i", "m", "e">>)

ChartCriteria(qr) ==
    /\ Truthy(qr.raw_data)
    /\ IsArray(qr.raw_data.columns)
    /\ IsArray(qr.raw_data.rows)
    /\ \E c \in Range(qr.raw_data.columns.items) : IsDateTimeColumn(c)
    /\ \E c \in Range(qr.raw_data.columns.items) :
          c.type \in {"integer", "float", "number"}
    /\ Len(qr.raw_data.rows.items) >= 2
    /\ Len(qr.raw_data.rows.items) <= 50

\* C10: a widget generated from a successful query result is a chart exactly
\* when the result meets the chart criteria; and a successful result that meets
\* them, with object rows, does yield a chart widget.
C10_ChartRule ==
    /\ IsWidget(generated) => (generated.type = "chart" <=> ChartCriteria(queryResult))
    /\ ( /\ generated # Unset
         /\ queryResult.success
         /\ ChartCriteria(queryResult)
         /\ \A r \in Range(queryResult.raw_data.rows.items) : IsObjectRow(r) )
       => IsWidget(generated) /\ generated.type = "chart"

C10_Witness ==
    /\ IsWidget(generated)
    /\ generated.type = "chart"
    /\ Len(queryResult.raw_data.rows.items) = 50

HasArrays(qr) ==
    /\ Truthy(qr.raw_data)
    /\ IsArray(qr.raw_data.columns)
    /\ IsArray(qr.raw_data.rows)

\* C11: a widget generated from a successful query result is a metric exactly
\* when raw_data has one row and one column, its data.value is then the cell
\* rows[0][columns[0].name]; and such a result, its row an object, does yield
\* a metric widget.
C11_MetricRule ==
    /\ IsWidget(generated) =>
          /\ generated.type = "metric" <=>
                 /\ Len(queryResult.raw_data.rows.items) = 1
                 /\ Len(queryResult.raw_data.columns.items) = 1
          /\ generated.type = "metric" =>
                 generated.data.value =
                     Prop(queryResult.raw_data.rows.items[1],
                          queryResult.raw_data.columns.items[1].name)
    /\ ( /\ generated # Unset
         /\ queryResult.success
         /\ HasArrays(queryResult)
         /\ Len(queryResult.raw_data.rows.items) = 1
         /\ Len(queryResult.raw_data.columns.items) = 1
         /\ IsObjectRow(queryResult.raw_data.rows.items[1]) )
       => IsWidget(generated) /\ generated.type = "metric"

C11_Witness ==
    /\ IsWidget(generated)
    /\ generated.type = "metric"
    /\ generated.data.value = Num(7)

\* C12: a successful query result with several rows or several columns that
\* does not meet the chart criteria yields a table widget whose data holds the
\* input rows and the input columns (name and type) in the input order.
C12_TableRule ==
    ( /\ generated # Unset
      /\ queryResult.success
      /\ HasArrays(queryResult)
      /\ \/ Len(queryResult.raw_data.rows.items) > 1
         \/ Len(queryResult.raw_data.columns.items) > 1
      /\ ~ChartCriteria(queryResult) )
    => /\ IsWidget(generated)
       /\ generated.type = "table"
       /\ generated.data.rows = queryResult.raw_data.rows
       /\ Len(generated.data.columns) = Len(queryResult.raw_data.columns.items)
       /\ \A i \in DOMAIN generated.data.columns :
             /\ generated.data.columns[i].name = queryResult.raw_data.columns.items[i].name
             /\ generated.data.columns[i].type = queryResult.raw_data.columns.items[i].type

C12_Witness ==
    /\ IsWidget(generated)
    /\ generated.type = "table"
    /\ Len(generated.data.columns) = 2
    /\ Len(generated.data.rows.items) = 51

\* No rows or no columns to show.
NoStructuredData(qr) ==
    \/ ~HasArrays(qr)
    \/ qr.raw_data.rows.items = <<>>
    \/ qr.raw_data.columns.items = <<>>

ErrorCase(qr) == ~qr.success \/ Truthy(qr.error)

\* C13 (as claimed): a query result without structured data, or an error case
\* (success false or error set), yields a text widget whose data.text is the
\* answer, or 'No data available' without one.
C13_TextRule ==
    (generated # Unset /\ (NoStructuredData(queryResult) \/ ErrorCase(queryResult)))
    => /\ IsWidget(generated)
       /\ generated.type = "text"
       /\ generated.data.text = OrElse(queryResult.answer, Str("No data available"))

(***************************************************************************)
(* Claims about MCP server selection (checked under SpecMCP).              *)
(***************************************************************************)
NoServerGiven(request) == request.mcp_server_id \in {Undefined, Null}

Max3(a, b, c) ==
    IF a >= b /\ a >= c THEN a ELSE IF b >= c THEN b ELSE c

\* C14: for a message sent without mcp_server_id, the server called is one
\* whose keyword score is the maximum of the three scores; no server with a
\* lower score than another is called.
C14_PicksMax ==
    (mcp.server # Null /\ NoServerGiven(mcp.request)) =>
        LET f == score("filesystem", mcp.request.message)
            d == score("database", mcp.request.message)
            w == score("web_scraper", mcp.request.message)
        IN  /\ score(mcp.server.v, mcp.request.message) = Max3(f, d, w)
            /\ \A other \in Servers :
                  score(mcp.server.v, mcp.request.message)
                      >= score(other, mcp.request.message)

C14_Witness ==
    /\ mcp.server = Str("database")
    /\ NoServerGiven(mcp.request)
    /\ score("database", mcp.request.message) = 2
    /\ score("filesystem", mcp.request.message) = 1

\* C15: a message that matches no keyword of any category, sent without
\* mcp_server_id, goes to the filesystem server.
C15_DefaultFilesystem ==
    ( /\ mcp.server # Null
      /\ NoServerGiven(mcp.request)
      /\ \A srv \in Servers : score(srv, mcp.request.message) = 0 )
    => mcp.server = Str("filesystem")

C15_Witness ==
    /\ mcp.server = Str("filesystem")
    /\ NoServerGiven(mcp.request)
    /\ mcp.request.message # <<>>
    /\ \A srv \in Servers : score(srv, mcp.request.message) = 0

Last(s) == s[Len(s)]

RestoredItems(a) ==
    Arr([i \in DOMAIN a.items |-> IF a.items[i].k = "undefined" THEN Null ELSE a.items[i]])

RestoredData(d) ==
    IF d.k = "chartData"
    THEN [k |-> "chartData",
          labels |-> RestoredItems(d.labels),
          datasets |-> [c \in DOMAIN d.datasets |->
                          [label |-> d.datasets[c].label,
                           data |-> RestoredItems(d.datasets[c].data),
                           type |-> d.datasets[c].type]],
          chartType |-> d.chartType]
    ELSE d

HasUndefinedItem(d) ==
    /\ d.k = "chartData"
    /\ \/ Undefined \in Range(d.labels.items)
       \/ \E c \in DOMAIN d.datasets : Undefined \in Range(d.datasets[c].data.items)

C2_HistoryPersisted ==
    /\ (page = "analytics" /\ event.name \in {"queryResolve", "queryReject"})
          => loadQueryHistory(localStorage, AnalyticsKey) = analytics.queryHistory
    /\ (page = "conversations" /\ event.name = "searchResolve")
          => loadQueryHistory(localStorage, ConversationsKey) = conversations.queryHistory

\* The request failed: it was rejected, or handling its response threw.
QueryFailed(ev) ==
    \/ ev.name = "queryReject"
    \/ ev.name = "queryResolve" /\ ~Truthy(ev.response)

\* C3 (as claimed): a failed executeQuery ends with currentResponse an error
\* entry for the submitted query, that one entry appended to queryHistory, and
\* the component idle again.
C3_FailureBecomesErrorEntry ==
    [][QueryFailed(event') =>
          /\ analytics'.currentResponse.status = "error"
          /\ analytics'.currentResponse.query = event'.request.body.query
          /\ analytics'.queryHistory =
                 Append(analytics.queryHistory, analytics'.currentResponse)
          /\ ~analytics'.isProcessing]_vars

IsErrorMessage(m) == m.role = "assistant" /\ m.content.k = "sorry"

\* C4 (as claimed): every failed HTTP call of the chatbot, startSession and
\* sendMessage alike, appends one assistant message describing the error.
C4_EveryFailureShown ==
    [][event'.name \in {"messageReject", "startReject"} =>
          /\ Len(chatbot'.messages) = Len(chatbot.messages) + 1
          /\ SubSeq(chatbot'.messages, 1, Len(chatbot.messages)) = chatbot.messages
          /\ IsErrorMessage(Last(chatbot'.messages))]_vars

\* C4 (amended): a failed sendMessage request appends one assistant message
\* describing the error; a failed startSession request is caught and logged
\* only, and leaves the messages as they were.
C4_SendFailureShown ==
    [][/\ event'.name = "messageReject" =>
            /\ Len(chatbot'.messages) = Len(chatbot.messages) + 1
            /\ SubSeq(chatbot'.messages, 1, Len(chatbot.messages)) = chatbot.messages
            /\ IsErrorMessage(Last(chatbot'.messages))
       /\ event'.name = "startReject" => chatbot'.messages = chatbot.messages]_vars

C4_Witness ==
    /\ event.name = "messageReject"
    /\ chatbot.messages # <<>>
    /\ IsErrorMessage(Last(chatbot.messages))
    /\ ~chatbot.isGenerating

InFlight == Len(SelectSeq(http, LAMBDA r : r.kind \in {"message", "query"}))

\* C5: each sendMessage / executeQuery that passes its guard posts exactly one
\* request; handling a failed request posts none and leaves one request fewer
\* in flight; nothing but a new call posts.
C5_NoRetry ==
    /\ [](posts = calls)
    /\ [][/\ event'.name \in {"sendMessage", "executeQuery"} =>
               /\ posts' = posts + 1
               /\ Len(SelectSeq(http', LAMBDA r : r.kind \in {"message", "query"}))
                      = InFlight + 1
          /\ event'.name \in {"messageReject", "queryReject"} =>
               /\ posts' = posts
               /\ Len(SelectSeq(http', LAMBDA r : r.kind \in {"message", "query"}))
                      = InFlight - 1
          /\ event'.name \notin {"sendMessage", "executeQuery", "reload"} =>
               /\ posts' = posts
               /\ Len(SelectSeq(http', LAMBDA r : r.kind \in {"message", "query"}))
                      <= InFlight]_vars

C5_Witness ==
    /\ event.name = "queryReject"
    /\ posts = 2
    /\ http = <<>>

Blank(s) == \A i \in DOMAIN s : s[i] \in WhiteSpace

\* C6: each submit control is disabled exactly when its text is empty or
\* white space only, or its component is busy.
C6_ButtonEnablement ==
    /\ sendBtnDisabled <=> (Blank(chatbot.currentMessage) \/ chatbot.isGenerating)
    /\ executeBtnDisabled <=> (Blank(analytics.queryText) \/ analytics.isProcessing)
    /\ searchBtnDisabled <=> (Blank(conversations.searchQuery) \/ conversations.isProcessing)

C6_Witness ==
    /\ page = "analytics"
    /\ analytics.isProcessing
    /\ ~Blank(analytics.queryText)
    /\ executeBtnDisabled

\* A response that succeeded and carries raw_data with columns and rows arrays.
SuccessfulQueryResponse(r) ==
    /\ Truthy(r)
    /\ r.success # Bool(FALSE)
    /\ Truthy(r.raw_data)
    /\ IsArray(r.raw_data.columns)
    /\ IsArray(r.raw_data.rows)

\* C7 (as claimed): a resolved sendMessage adds a widget - exactly one, with one
\* 'system' notification as the last chat message - exactly when the toggle is
\* on, the dashboard service is there and the response is a successful query
\* result; with the toggle off the widget list is left alone.
C7_AutoDashboard ==
    [][event'.name = "messageResolve" =>
          /\ (widgets' # widgets) <=>
                 /\ chatbot.autoDashboardGeneration
                 /\ chatbot.dashboardService
                 /\ SuccessfulQueryResponse(event'.response)
          /\ (widgets' # widgets) =>
                 /\ Len(widgets') = Len(widgets) + 1
                 /\ SubSeq(widgets', 1, Len(widgets)) = widgets
                 /\ Last(chatbot'.messages) = notificationMessage
          /\ ~chatbot.autoDashboardGeneration => widgets' = widgets]_vars

\* A valid query result under the response's query_result or data field only.
HasNestedQueryResult(r) ==
    /\ Truthy(r)
    /\ ~Truthy(r.raw_data)
    /\ \/ SuccessfulQueryResponse(r.query_result)
       \/ SuccessfulQueryResponse(r.data)

\* C8 (as claimed): with auto-generation on, a response carrying its query
\* result under query_result or data yields a new widget.
C8_NestedQueryResult ==
    [][( /\ event'.name = "messageResolve"
         /\ chatbot.autoDashboardGeneration
         /\ chatbot.dashboardService
         /\ HasNestedQueryResult(event'.response) )
       => Len(widgets') = Len(widgets) + 1]_vars

(***************************************************************************)
(* Claims about AppComponent (checked under Spec).                         *)
(***************************************************************************)
\* local@domain.tld without white space: one "@" with something before it, and
\* after it a "." that has something on both sides.
WellFormedEmail(e) ==
    /\ \A n \in DOMAIN e : e[n] \notin WhiteSpace
    /\ Cardinality({n \in DOMAIN e : e[n] = "@"}) = 1
    /\ LET at == CHOOSE n \in DOMAIN e : e[n] = "@"
       IN  /\ at > 1
           /\ \E dot \in (at + 2)..(Len(e) - 1) : e[dot] = "."

ValidLogin(form) ==
    /\ form.email # <<>>
    /\ form.apiKey # <<>>
    /\ WellFormedEmail(form.email)
    /\ Len(form.apiKey) >= 8

\* C17: login() authenticates - isAuthenticated true, currentUser the user of
\* the form, that user stored under 'thirdEyeUser' - exactly when both fields
\* are filled, the email is well formed and the API key has 8 characters or
\* more; otherwise isAuthenticated, currentUser, the stored user and the form
\* are left as they were.
C17_LoginValidation ==
    [][event'.name = "login" =>
          IF ValidLogin(app.loginForm)
          THEN /\ app'.isAuthenticated
               /\ app'.currentUser.email = app.loginForm.email
               /\ app'.currentUser.apiKey = app.loginForm.apiKey
               /\ localStorage'[UserKey] # Null
               /\ parse(localStorage'[UserKey]) = app'.currentUser
          ELSE /\ app' = app
               /\ localStorage'[UserKey] = localStorage[UserKey]]_vars

C17_Witness ==
    /\ event.name = "login"
    /\ app.isAuthenticated
    /\ app.currentUser.email = <<"a", ".", "b", "@", "c", ".", "d">>
    /\ Len(app.currentUser.apiKey) = 8
    /\ localStorage[UserKey] # Null

\* C18 (as claimed): constructing AppComponent anew at any time gives the
\* authentication state there was: the same user if authenticated,
\* unauthenticated after logout.
C18_SessionRemembered ==
    page = "app" =>
        /\ InitApp(localStorage).isAuthenticated = app.isAuthenticated
        /\ InitApp(localStorage).currentUser = app.currentUser

(***************************************************************************)
(* Claims about DashboardService.removeWidget (checked under Spec).        *)
(***************************************************************************)
\* C19: removeWidget(widgetId) leaves no widget with that id, keeps every
\* other widget as it was and in the same relative order, and leaves the list
\* as it was when no widget had that id.
C19_RemoveFrame ==
    [][event'.name = "removeWidget" =>
          LET widgetId == event'.request
              kept == {i \in DOMAIN widgets : widgets[i].id # widgetId}
          IN  /\ \A n \in DOMAIN widgets' : widgets'[n].id # widgetId
              /\ Len(widgets') = Cardinality(kept)
              /\ \A i \in kept :
                    widgets'[Cardinality({j \in kept : j <= i})] = widgets[i]
              /\ kept = DOMAIN widgets => widgets' = widgets]_vars

C19_Witness ==
    /\ event.name = "removeWidget"
    /\ Len(widgets) = 2
    /\ widgets[1].id = WidgetId(0)
    /\ widgets[2].id = WidgetId(2)

(***************************************************************************)
(* Claims about chart detection (checked under SpecWidget).                *)
(***************************************************************************)
\* raw_data with at least 2 columns, at least 1 row and a numeric column.
Chartable(response) ==
    /\ HasArrays(response)
    /\ Len(response.raw_data.columns.items) >= 2
    /\ Len(response.raw_data.rows.items) >= 1
    /\ \E c \in Range(response.raw_data.columns.items) :
          c.type \in {"integer", "float", "number"}

\* C20: after a query succeeded, canShowChart is true exactly when the response
\* is chartable, and the view is then 'chart', otherwise 'json'.
C20_ChartDetection ==
    shown # Unset =>
        /\ shown.canShowChart <=> Chartable(queryResult)
        /\ shown.viewMode = IF Chartable(queryResult) THEN "chart" ELSE "json"

C20_Witness ==
    /\ shown # Unset
    /\ shown.canShowChart
    /\ shown.viewMode = "chart"
    /\ Len(queryResult.raw_data.columns.items) = 2
    /\ Len(queryResult.raw_data.rows.items) = 1

(***************************************************************************)
(* Claims about the chart of the Analytics page (checked under SpecCharts).*)
(***************************************************************************)
\* Right after clearOutput no Chart object is left and this.chart is null.
ClearLeavesNoChart ==
    event'.name = "clearOutputOfCharts"
        => (NonDestroyed(charts') = 0 /\ charts'.chart = Null)

\* A generateChart timer that was set before a clearOutput creates no Chart.
StaleTimerCreatesNoChart ==
    (event'.name = "generateChartTimer" /\ event'.request.stale)
        => event'.response = Bool(FALSE)

AtMostOneChart == NonDestroyed(charts') <= 1

\* C21: after clearOutput no Chart instance exists (the previous one is
\* destroyed and this.chart is null), no Chart is created afterwards by a
\* generateChart timer that was scheduled before that clearOutput, and at
\* any time at most one non-destroyed Chart instance exists.
C21_ChartCleanUp ==
    [][ClearLeavesNoChart /\ StaleTimerCreatesNoChart /\ AtMostOneChart]_vars

(***************************************************************************)
(* Claims about requests in flight (checked under Spec).                   *)
(***************************************************************************)
QueryCompleted(ev) == ev.name \in {"queryResolve", "queryReject", "searchResolve"}

CompletedEntry(ev, a, c) ==
    IF ev.name = "searchResolve" THEN c.currentResponse ELSE a.currentResponse

CompletedHistory(ev, a, c) ==
    IF ev.name = "searchResolve" THEN c.queryHistory ELSE a.queryHistory

\* C22: the entry a completed executeQuery / executeSearch leaves in
\* currentResponse and appends to the history carries the query text that was
\* submitted with the request, whatever the user did while it was in flight.
C22_EntryCarriesSubmittedQuery ==
    [][QueryCompleted(event') =>
          /\ CompletedEntry(event', analytics', conversations').query
                 = event'.request.body.query
          /\ Last(CompletedHistory(event', analytics', conversations'))
                 = CompletedEntry(event', analytics', conversations')]_vars

\* C23: a user message that sendMessage appended to messages stays in the
\* list, in its place, through every later step of the component (a
\* startSession response that arrives after it included).
C23_UserMessageKept ==
    [][event'.name # "reload" =>
          \A i \in DOMAIN chatbot.messages :
              chatbot.messages[i].role = "user" =>
                  /\ i \in DOMAIN chatbot'.messages
                  /\ chatbot'.messages[i] = chatbot.messages[i]]_vars

(***************************************************************************)
(* Claims about busy components (C24 checked under SpecCalls).             *)
(***************************************************************************)
BusyCalls == {"callSendMessage", "callBedrockSendMessage", "callExecuteQuery",
              "callExecuteSearch"}

RequestKinds == {"message", "bedrock", "query", "search"}

InFlightOf(kind, pending) == Cardinality({i \in DOMAIN pending : pending[i].kind = kind})

OneRequestPerComponent(pending) == \A kind \in RequestKinds : InFlightOf(kind, pending) <= 1

\* C24: a call to sendMessage (chatbot, Bedrock), executeQuery or
\* executeSearch made while the component's isGenerating / isProcessing flag
\* is true starts no request and changes no state, so that each component
\* has at most one request in flight.
C24_BusyCallIsNoOp ==
    [][/\ event'.name \in BusyCalls =>
              /\ http' = http
              /\ <<chatbot', bedrock', analytics', conversations'>>
                     = <<chatbot, bedrock, analytics, conversations>>
              /\ localStorage' = localStorage
        /\ OneRequestPerComponent(http')]_vars

Loading(entry) == Truthy(entry) /\ entry.status = "loading"

\* With no request of a component outstanding, the component is not busy and
\* shows no loading entry.
IdleWhenNoRequest(pending, c, b, a, s) ==
    /\ InFlightOf("message", pending) = 0 => ~c.isGenerating
    /\ InFlightOf("bedrock", pending) = 0 => ~b.isGenerating
    /\ InFlightOf("query", pending) = 0 => (~a.isProcessing /\ ~Loading(a.currentResponse))
    /\ InFlightOf("search", pending) = 0 => (~s.isProcessing /\ ~Loading(s.currentResponse))

\* The step in which a request settles leaves its component not busy.
SettledNotBusy ==
    /\ event'.name \in {"messageResolve", "messageReject"} => ~chatbot'.isGenerating
    /\ event'.name = "bedrockResolve" => ~bedrock'.isGenerating
    /\ event'.name \in {"queryResolve", "queryReject"} => ~analytics'.isProcessing
    /\ event'.name = "searchResolve" => ~conversations'.isProcessing

\* C25: every request of sendMessage / executeQuery / executeSearch that
\* resolves or rejects leaves the component's busy flag false, and in every
\* state with no request of a component outstanding its flag is false and its
\* currentResponse is not a loading entry.
C25_NeverStuckBusy ==
    [][/\ SettledNotBusy
        /\ IdleWhenNoRequest(http', chatbot', bedrock', analytics', conversations')]_vars

C25_Witness ==
    /\ event.name = "bedrockResolve"
    /\ InFlightOf("bedrock", http) = 0
    /\ ~bedrock.isGenerating
    /\ Len(bedrock.chatMessages) = 2

=============================================================================
